---- MODULE Spec2Model ----
(***************************************************************************)
(* A model of the world graph (dungeon/models/map.py) and of the command   *)
(* interpreter (dungeon/models/dungeon.py) of the ai_dungeon repository.   *)
(*                                                                         *)
(* Room identities (uuid4 values in the code) are the numbers 1..MaxRooms. *)
(* A Python dict is a sequence of entries in insertion order, because the   *)
(* code depends on that order (disconnect_rooms takes the first exit that   *)
(* leads to the other room).                                                *)
(***************************************************************************)
EXTENDS Integers, Sequences, FiniteSets, TLC

\* ------------------------------------------------------------------ bounds
MaxRooms == 3
MaxCalls == 5

Rooms == 1..MaxRooms

\* The Python value None, for a direction or a name.
None == "None"

\* The Python value None where a room identity is expected.
NoRoom == 0

\* --------------------------------------------------------------- Direction
\* The members of the Direction enumeration, in definition order.
Direction == <<"UP", "DOWN", "NORTH", "SOUTH", "EAST", "WEST">>

Directions == {Direction[i] : i \in 1..Len(Direction)}

\* A mutant of get_opposite: NORTH and SOUTH are their own opposites.
get_opposite_fixed_point(direction) ==
    CASE direction = "UP" -> "DOWN"
      [] direction = "DOWN" -> "UP"
      [] direction = "NORTH" -> "NORTH"
      [] direction = "SOUTH" -> "SOUTH"
      [] direction = "EAST" -> "WEST"
      [] direction = "WEST" -> "EAST"

get_opposite(direction) ==
    CASE direction = "UP" -> "DOWN"
      [] direction = "DOWN" -> "UP"
      [] direction = "NORTH" -> "SOUTH"
      [] direction = "SOUTH" -> "NORTH"
      [] direction = "EAST" -> "WEST"
      [] direction = "WEST" -> "EAST"

\* ------------------------------------------------------ dict (one row) ops
\* A row of Map._connections: the exits of one room, a dict Direction -> id,
\* kept as a sequence of entries [dir, to] in insertion order.
EmptyRow == << >>

\* direction in row
HasExit(row, d) == \E i \in 1..Len(row) : row[i].dir = d

\* row.get(direction): the target, or None
ExitOf(row, d) ==
    IF HasExit(row, d)
    THEN row[CHOOSE i \in 1..Len(row) : row[i].dir = d].to
    ELSE NoRoom

\* row[direction] = target: an existing key keeps its place, a new key is
\* appended.
SetExit(row, d, t) ==
    IF HasExit(row, d)
    THEN [i \in 1..Len(row) |-> IF row[i].dir = d THEN [dir |-> d, to |-> t] ELSE row[i]]
    ELSE Append(row, [dir |-> d, to |-> t])

\* del row[direction] (the key is present)
DelExit(row, d) == SelectSeq(row, LAMBDA e : e.dir # d)

\* The first direction of the row, in insertion order, whose exit leads to
\* target; None when there is none.
FirstDirectionTo(row, target) ==
    IF \E i \in 1..Len(row) : row[i].to = target
    THEN LET i == CHOOSE j \in 1..Len(row) :
                    /\ row[j].to = target
                    /\ \A k \in 1..(j - 1) : row[k].to # target
         IN row[i].dir
    ELSE None

\* The directions of a row as a set.
ExitDirections(row) == {row[i].dir : i \in 1..Len(row)}

\* ------------------------------------------------------------------- state
VARIABLES
    rooms,            \* Map._rooms: the identities of the registered rooms
    connections,      \* Map._connections: room -> row of exits
    visited_rooms,    \* Map._visited_rooms
    call,             \* the last call made on the Map API
    outcome,          \* the exception that call raised, or None
    ncalls,           \* the number of Map API calls made so far
    current_room,     \* Dungeon.current_room (the room object), NoRoom for None
    current_room_id,  \* Dungeon.current_room_id, NoRoom for None
    player_character, \* Dungeon.player_character: None or "player"
    inventory,        \* Character._inventory of the player: a list of items
    room_items,       \* Room._room_items of every room: a list of
                      \* [item, item_room_description]
    result,           \* the last parse_command call: what it returned or
                      \* raised, and its locals at that point
    before_take,      \* room_items and inventory as they were before the
                      \* last command, when that command was a TAKE that
                      \* moved an item; NoSnapshot otherwise
    room_direction_info, \* Room.room_direction_info of every room: the
                      \* exits narration, NoNarration until load_dungeon
                      \* sets it
    npcs,             \* Room._npcs of every room: a list of NPCs
    is_locked,        \* Room._is_locked of every room
    sessions,         \* api.main.sessions: session id -> the Dungeon of the
                      \* session, None for an id that is not a key
    session_id,       \* the session whose Dungeon the variables above show
    requests,         \* the /parser/ requests received and not yet handled
    svg               \* the locals of a Map.to_svg call and its position

mapVars == <<rooms, connections, visited_rooms>>
apiVars == <<call, outcome, ncalls>>
roomVars == <<npcs, is_locked>>
serverVars == <<sessions, session_id, requests>>
gameVars == <<current_room, current_room_id, player_character, inventory,
              room_items, result, before_take, room_direction_info,
              roomVars, serverVars, svg>>
vars == <<rooms, connections, visited_rooms, call, outcome, ncalls,
          current_room, current_room_id, player_character, inventory,
          room_items, result, before_take, room_direction_info,
          npcs, is_locked, sessions, session_id, requests, svg>>

\* ----------------------------------------------------------------- Map API
\* Every operation is a function from the state before the call to the
\* state after it and the exception raised (None when the call returns).
\* The row of a room that is not registered is kept empty: the code has no
\* row for it.

\* A mutant of add_room: the exits of the other rooms to the room are
\* deleted as well.
add_room_unlinked(conn, room_id) ==
    [r \in DOMAIN conn |->
        IF r = room_id THEN EmptyRow
        ELSE SelectSeq(conn[r], LAMBDA e : e.to # room_id)]

\* Map.add_room
add_room(conn, room_id) == [conn EXCEPT ![room_id] = EmptyRow]

\* A mutant of connect_rooms: the reverse exit is not written.
connect_rooms_one_way(rs, conn, room_id1, room_id2, direction) ==
    IF room_id1 \notin rs \/ room_id2 \notin rs
    THEN [connections |-> conn, raised |-> "KeyError"]
    ELSE IF HasExit(conn[room_id1], direction)
    THEN [connections |-> conn, raised |-> "ValueError"]
    ELSE [connections |-> [conn EXCEPT ![room_id1] = SetExit(@, direction, room_id2)],
          raised |-> None]

\* Map.connect_rooms
connect_rooms(rs, conn, room_id1, room_id2, direction) ==
    IF room_id1 \notin rs \/ room_id2 \notin rs
    THEN [connections |-> conn, raised |-> "KeyError"]
    ELSE IF HasExit(conn[room_id1], direction)
    THEN [connections |-> conn, raised |-> "ValueError"]
    ELSE LET c1 == [conn EXCEPT ![room_id1] = SetExit(@, direction, room_id2)]
             c2 == [c1 EXCEPT ![room_id2] =
                        SetExit(@, get_opposite(direction), room_id1)]
         IN [connections |-> c2, raised |-> None]

\* Map.disconnect_rooms.  The second del raises KeyError, after the first
\* del has been done, when room_id2 has no exit in the opposite direction.
disconnect_rooms(rs, conn, room_id1, room_id2) ==
    IF room_id1 \notin rs \/ room_id2 \notin rs
    THEN [connections |-> conn, raised |-> "KeyError", direction |-> None]
    ELSE LET direction == FirstDirectionTo(conn[room_id1], room_id2)
         IN IF direction = None
            THEN [connections |-> conn, raised |-> "ValueError", direction |-> None]
            ELSE LET c1 == [conn EXCEPT ![room_id1] = DelExit(@, direction)]
                     opposite_direction == get_opposite(direction)
                 IN IF ~HasExit(c1[room_id2], opposite_direction)
                    THEN [connections |-> c1, raised |-> "KeyError",
                          direction |-> direction]
                    ELSE [connections |->
                              [c1 EXCEPT ![room_id2] = DelExit(@, opposite_direction)],
                          raised |-> None, direction |-> direction]

\* A mutant of get_connected_room: when the room has no exit in the direction
\* asked for, the room behind its first exit is returned.
get_connected_room_any_exit(rs, conn, room_id, direction) ==
    IF room_id \notin rs
    THEN [room |-> NoRoom, raised |-> "KeyError"]
    ELSE LET connected_id ==
                IF HasExit(conn[room_id], direction) \/ conn[room_id] = << >>
                THEN ExitOf(conn[room_id], direction)
                ELSE conn[room_id][1].to
         IN IF connected_id = NoRoom
            THEN [room |-> NoRoom, raised |-> None]
            ELSE IF connected_id \notin rs
            THEN [room |-> NoRoom, raised |-> "KeyError"]
            ELSE [room |-> connected_id, raised |-> None]

\* A mutant of get_connected_room: a locked room is not returned.
get_connected_room_unlocked(rs, conn, room_id, direction) ==
    IF room_id \notin rs
    THEN [room |-> NoRoom, raised |-> "KeyError"]
    ELSE LET connected_id == ExitOf(conn[room_id], direction)
         IN IF connected_id = NoRoom
            THEN [room |-> NoRoom, raised |-> None]
            ELSE IF connected_id \notin rs
            THEN [room |-> NoRoom, raised |-> "KeyError"]
            ELSE IF is_locked[connected_id]
            THEN [room |-> NoRoom, raised |-> None]
            ELSE [room |-> connected_id, raised |-> None]

\* Map.get_connected_room: the connected room, NoRoom for None.
get_connected_room(rs, conn, room_id, direction) ==
    IF room_id \notin rs
    THEN [room |-> NoRoom, raised |-> "KeyError"]
    ELSE LET connected_id == ExitOf(conn[room_id], direction)
         IN IF connected_id = NoRoom
            THEN [room |-> NoRoom, raised |-> None]
            ELSE IF connected_id \notin rs
            THEN [room |-> NoRoom, raised |-> "KeyError"]
            ELSE [room |-> connected_id, raised |-> None]

\* A mutant of get_connected_rooms: no exit is reported.
get_connected_rooms_none(conn, room_id) == EmptyRow

\* Map.get_connected_rooms: the row of the room (the rooms are identities)
get_connected_rooms(conn, room_id) == conn[room_id]

\* ------------------------------------------ the Map API as a state machine
\* The directions the callers of the Map API pass in this model.
ApiDirections == {"NORTH", "SOUTH", "EAST"}

NoCall == [op |-> "none", room_id1 |-> NoRoom, room_id2 |-> NoRoom, direction |-> None]

\* No parse_command call has been made.
NoMessage ==
    [text |-> None, verb |-> None, direction |-> None, description |-> NoRoom,
     exits |-> << >>, item |-> None, items |-> << >>, words |-> << >>]

NoResult ==
    [raised |-> None, returned |-> FALSE, action |-> None, message |-> NoMessage,
     room_img |-> None, direction |-> None, room_target_item |-> None,
     player_target_item |-> None]

NoSnapshot == [taken |-> None, room_items |-> << >>, inventory |-> << >>]

\* The exits narration of a room: the directions it names.  A Room is built
\* with the empty narration; load_dungeon sets it at the end of the load.
NoNarration == [set |-> FALSE, exits |-> << >>]

\* The session part of the state while only the Map API is exercised.
SessionIds == {"s1", "s2", "s3"}

\* The entry of a session id that is not a key of sessions.
NoDungeon ==
    [exists |-> FALSE, rooms |-> {}, connections |-> [r \in Rooms |-> EmptyRow],
     visited_rooms |-> {}, current_room |-> NoRoom, current_room_id |-> NoRoom,
     player_character |-> None, inventory |-> << >>,
     room_items |-> [r \in Rooms |-> << >>],
     room_direction_info |-> [r \in Rooms |-> NoNarration],
     npcs |-> [r \in Rooms |-> << >>], is_locked |-> [r \in Rooms |-> FALSE]]

\* No session has logged in: sessions is the empty dictionary.
NoServer ==
    /\ sessions = [s \in SessionIds |-> NoDungeon]
    /\ session_id = None
    /\ requests = {}

\* No to_svg call has been made.
NoSvg ==
    [pc |-> "idle", placed_rooms |-> {}, rooms_to_place |-> << >>,
     room_positions |-> [r \in Rooms |-> <<0, 0>>]]

NoSession ==
    /\ svg = NoSvg
    /\ npcs = [r \in Rooms |-> << >>]
    /\ is_locked = [r \in Rooms |-> FALSE]
    /\ NoServer
    /\ current_room = NoRoom
    /\ current_room_id = NoRoom
    /\ player_character = None
    /\ inventory = << >>
    /\ room_items = [r \in Rooms |-> << >>]
    /\ result = NoResult
    /\ before_take = NoSnapshot
    /\ room_direction_info = [r \in Rooms |-> NoNarration]

MapInit ==
    /\ rooms = {}
    /\ connections = [r \in Rooms |-> EmptyRow]
    /\ visited_rooms = {}
    /\ call = NoCall
    /\ outcome = None
    /\ ncalls = 0
    /\ NoSession

AddRoom(r) ==
    /\ ncalls < MaxCalls
    /\ rooms' = rooms \cup {r}
    /\ connections' = add_room(connections, r)
    /\ call' = [op |-> "add_room", room_id1 |-> r, room_id2 |-> NoRoom,
                direction |-> None]
    /\ outcome' = None
    /\ ncalls' = ncalls + 1
    /\ UNCHANGED <<visited_rooms, gameVars>>

ConnectRooms(a, b, d) ==
    /\ ncalls < MaxCalls
    /\ LET res == connect_rooms(rooms, connections, a, b, d)
       IN /\ connections' = res.connections
          /\ outcome' = res.raised
    /\ call' = [op |-> "connect_rooms", room_id1 |-> a, room_id2 |-> b,
                direction |-> d]
    /\ ncalls' = ncalls + 1
    /\ UNCHANGED <<rooms, visited_rooms, gameVars>>

\* call.direction is the direction disconnect_rooms found (None if none).
DisconnectRooms(a, b) ==
    /\ ncalls < MaxCalls
    /\ LET res == disconnect_rooms(rooms, connections, a, b)
       IN /\ connections' = res.connections
          /\ outcome' = res.raised
          /\ call' = [op |-> "disconnect_rooms", room_id1 |-> a, room_id2 |-> b,
                      direction |-> res.direction]
    /\ ncalls' = ncalls + 1
    /\ UNCHANGED <<rooms, visited_rooms, gameVars>>

MapNext ==
    \/ \E r \in Rooms : AddRoom(r)
    \/ \E a \in Rooms, b \in Rooms, d \in ApiDirections : ConnectRooms(a, b, d)
    \/ \E a \in Rooms, b \in Rooms : DisconnectRooms(a, b)

SpecMap == MapInit /\ [][MapNext]_vars

\* ------------------------------------------------- properties of the Map API
\* A step of SpecMap is one call: ncalls counts them.
IsCall(op) == ncalls' = ncalls + 1 /\ call'.op = op

\* C1: after any sequence of add_room, connect_rooms and disconnect_rooms
\* calls the adjacency table is symmetric: for registered rooms a, b and
\* every direction d, a's exit in d is b iff b's exit in opposite(d) is a.
C1_AdjacencySymmetric ==
    \A a \in rooms, b \in rooms, d \in Directions :
        (ExitOf(connections[a], d) = b)
            <=> (ExitOf(connections[b], get_opposite(d)) = a)

\* C2: a connect_rooms or disconnect_rooms call that raises leaves the whole
\* adjacency table as it was before the call.
C2_FailedCallChangesNothing ==
    [][ ( /\ (IsCall("connect_rooms") \/ IsCall("disconnect_rooms"))
          /\ outcome' # None )
        => connections' = connections ]_vars

\* C3: for registered rooms A and B where A has no exit in direction d,
\* connect_rooms(A, B, d) succeeds; afterwards get_connected_room(A, d) is B
\* and get_connected_room(B, opposite(d)) is A, and a second
\* connect_rooms(A, B, d) fails with ValueError (the duplicate-connection
\* error) and changes nothing.
C3_ConnectThenDuplicate ==
    [][ ( /\ IsCall("connect_rooms")
          /\ call'.room_id1 \in rooms
          /\ call'.room_id2 \in rooms
          /\ ~HasExit(connections[call'.room_id1], call'.direction) )
        => LET A == call'.room_id1
               B == call'.room_id2
               d == call'.direction
               again == connect_rooms(rooms', connections', A, B, d)
           IN /\ outcome' = None
              /\ get_connected_room(rooms', connections', A, d)
                     = [room |-> B, raised |-> None]
              /\ get_connected_room(rooms', connections', B, get_opposite(d))
                     = [room |-> A, raised |-> None]
              /\ again.raised = "ValueError"
              /\ again.connections = connections' ]_vars

\* C3 witness: a connect_rooms call between two different registered rooms
\* has just succeeded.
C3_Witness ==
    /\ call.op = "connect_rooms"
    /\ outcome = None
    /\ call.room_id1 # call.room_id2
    /\ ExitOf(connections[call.room_id1], call.direction) = call.room_id2

\* C4: disconnect_rooms(a, b) on registered rooms fails with ValueError (the
\* not-connected error) when no exit of a leads to b; when it succeeds it
\* removes exactly the exit from a to b and the reverse exit from b back to
\* a, so that afterwards a has no exit in that direction d and b has none in
\* opposite(d), and no exit between any other pair of rooms is changed.
C4_DisconnectExact ==
    [][ ( /\ IsCall("disconnect_rooms")
          /\ call'.room_id1 \in rooms
          /\ call'.room_id2 \in rooms )
        => LET a == call'.room_id1
               b == call'.room_id2
               d == call'.direction
           IN IF \A e \in Directions : ExitOf(connections[a], e) # b
              THEN outcome' = "ValueError" /\ connections' = connections
              ELSE outcome' = None =>
                     /\ ExitOf(connections[a], d) = b
                     /\ ExitOf(connections[b], get_opposite(d)) = a
                     /\ ExitOf(connections'[a], d) = NoRoom
                     /\ ExitOf(connections'[b], get_opposite(d)) = NoRoom
                     /\ \A r \in Rooms, e \in Directions :
                            (<<r, e>> # <<a, d>> /\ <<r, e>> # <<b, get_opposite(d)>>)
                                => ExitOf(connections'[r], e) = ExitOf(connections[r], e)
      ]_vars

\* ===================================================== the command interpreter
\* ------------------------------------------------------------------ bounds
MaxInventory == 3

\* ------------------------------------------------------------------- Action
\* The members of the Action enumeration, in definition order, with their
\* aliases.
Action ==
    << [name |-> "NONE", alias |-> {"none", "unknown"}],
       [name |-> "INIT", alias |-> {"init", "initialize", "start"}],
       [name |-> "RESTART", alias |-> {"restart", "reset", "begin again"}],
       [name |-> "MOVE", alias |-> {"move", "go", "travel"}],
       [name |-> "LOOK", alias |-> {"look"}],
       [name |-> "INVENTORY", alias |-> {"inventory", "inv"}],
       [name |-> "HELP", alias |-> {"help"}],
       [name |-> "CLEAR", alias |-> {"clear"}],
       [name |-> "EXAMINE", alias |-> {"examine"}],
       [name |-> "EAT", alias |-> {"eat"}],
       [name |-> "DRINK", alias |-> {"drink"}],
       [name |-> "SMELL", alias |-> {"smell"}],
       [name |-> "BREAK", alias |-> {"break"}],
       [name |-> "THROW", alias |-> {"throw"}],
       [name |-> "READ", alias |-> {"read"}],
       [name |-> "DROP", alias |-> {"drop"}],
       [name |-> "USE", alias |-> {"use"}],
       [name |-> "TALK", alias |-> {"talk", "ask", "tell"}],
       [name |-> "TAKE", alias |-> {"take"}],
       [name |-> "GIVE", alias |-> {"give"}],
       [name |-> "OPEN", alias |-> {"open"}],
       [name |-> "CLOSE", alias |-> {"close"}],
       [name |-> "ATTACK", alias |-> {"attack", "kick", "punch", "kill", "fight"}] >>

\* direction.value: the words of a direction.
DirectionValue(d) ==
    CASE d = "UP" -> {"up"}
      [] d = "DOWN" -> {"down"}
      [] d = "NORTH" -> {"north"}
      [] d = "SOUTH" -> {"south"}
      [] d = "EAST" -> {"east"}
      [] d = "WEST" -> {"west"}

\* ------------------------------------------------------------- the command
\* re.sub(r'[^a-zA-Z0-9\s]', '', word)
Sanitize(word) ==
    CASE word = "Key!" -> "Key"
      [] OTHER -> word

\* str.lower()
Lower(word) ==
    CASE word = "Key" -> "key"
      [] word = "Key!" -> "key!"
      [] word = "Lamp" -> "lamp"
      [] word = "Rusty Key" -> "rusty key"
      [] word = "Hall" -> "hall"
      [] word = "Iron Key" -> "iron key"
      [] word = "Guard" -> "guard"
      [] OTHER -> word

\* A command is a sequence of words separated by blanks.  The commands of
\* the model are a verb followed by a target, and a few others: the empty
\* line, a line without a verb, the verbs that take no target, a line with
\* two verbs and a line with a word of naughty_word_list.  "Key!" carries a capital and a punctuation mark, "Lamp"
\* a capital.
Verbs == {<<"go">>, <<"take">>, <<"drop">>}

Targets ==
    {<< >>, <<"north">>, <<"south">>, <<"south", "north">>,
     <<"Lamp">>, <<"Key!">>, <<"Lamp", "Key!">>}

GameCommands ==
    {<< >>, <<"Lamp">>, <<"init">>, <<"look">>, <<"inventory">>,
     <<"take", "go", "north">>, <<"go", "north", "take">>,
     <<"go", "shit">>, <<"go", "north", "shit">>, <<"shit">>}
        \cup {v \o t : v \in Verbs, t \in Targets}

\* word_tokenize(re.sub(...).lower()); a word that is sanitized away leaves
\* no token.
command_words(command) ==
    SelectSeq([i \in 1..Len(command) |-> Lower(Sanitize(command[i]))],
              LAMBDA w : w # "")

available_action_words_alias == UNION {Action[i].alias : i \in 1..Len(Action)}

\* A mutant of command_actions: no action is ever recognised.
command_actions_none(words) ==
    SelectSeq(Action, LAMBDA a : FALSE)

\* A mutant of command_actions: the actions in the order in which their
\* aliases appear in the command.
command_actions_word_order(words) ==
    LET hits == SelectSeq(words, LAMBDA w : w \in available_action_words_alias)
    IN [i \in 1..Len(hits) |->
            Action[CHOOSE k \in 1..Len(Action) : hits[i] \in Action[k].alias]]

\* The actions, in enumeration order, one of whose aliases is a word of the
\* command.
command_actions(words) ==
    SelectSeq(Action, LAMBDA a : \E i \in 1..Len(words) : words[i] \in a.alias)

\* The directions, in enumeration order, one of whose words is a word of the
\* command.
\* A mutant of command_directions: the directions come in the order of the
\* words of the command.
command_directions_word_order(words) ==
    LET named == SelectSeq(words, LAMBDA w : \E d \in Directions :
                                                w \in DirectionValue(d))
    IN [i \in 1..Len(named) |->
            CHOOSE d \in Directions : named[i] \in DirectionValue(d)]

command_directions(words) ==
    SelectSeq(Direction,
              LAMBDA d : \E i \in 1..Len(words) : words[i] \in DirectionValue(d))

remaining_command_words(words) ==
    SelectSeq(words, LAMBDA w : w \notin available_action_words_alias)

naughty_word_list == {"fuck", "shit", "asshole", "bitch"}

default_response ==
    {"I'm not sure what you are trying to do here...", "Nope.",
     "Ain't gonna happen.", "No can do."}

naughty_response ==
    {"Does your mother know you talk like that?", "Rude!", "Seriously? No."}

\* -------------------------------------------------------------------- items
\* The items of the load documents, by identity.  Item has no __eq__, so two
\* items are equal only when they are the same object.
Items == {"lamp", "rustykey"}

\* Two more items, for collections in which a word matches one item by its
\* name and another by an alias or by its type: a generic item named "Key"
\* and a key named "Iron Key" without an alias.
MoreItems == Items \cup {"plainkey", "ironkey"}

ItemName(item) ==
    CASE item = "lamp" -> "Lamp"
      [] item = "rustykey" -> "Rusty Key"
      [] item = "plainkey" -> "Key"
      [] item = "ironkey" -> "Iron Key"

\* Item._alias: the name followed by the aliases of the document.
ItemAlias(item) ==
    CASE item = "lamp" -> {"Lamp", "lantern"}
      [] item = "rustykey" -> {"Rusty Key", "key"}
      [] item = "plainkey" -> {"Key"}
      [] item = "ironkey" -> {"Iron Key"}

\* Item._item_type: "key" builds a Key; a type load_dungeon does not know
\* builds a generic Item of type "something".
ItemType(item) ==
    CASE item = "lamp" -> "something"
      [] item = "rustykey" -> "key"
      [] item = "plainkey" -> "something"
      [] item = "ironkey" -> "key"

\* The three tests parse_command makes of a word against an item.
WordMatchesItem(word, item) ==
    \/ Lower(word) = Lower(ItemName(item))
    \/ \E alias \in ItemAlias(item) : Lower(word) = Lower(alias)
    \/ ItemType(item) # "" /\ Lower(word) = Lower(ItemType(item))

\* ---------------------------------------------------------- load documents
\* A load document lists its rooms and its connections.  A room record has a
\* reference key (None when the record has none) and its items; the n-th
\* record of the list builds the room of identity n.  The connections map of
\* the document, room key -> {direction name -> target key}, is the list of
\* its entries in document order.
NoPhrase == ""

\* str.upper() of a direction name.
Upper(direction_str) ==
    CASE direction_str = "north" -> "NORTH"
      [] direction_str = "south" -> "SOUTH"
      [] direction_str = "sideways" -> "SIDEWAYS"
      [] OTHER -> direction_str

Worlds ==
    << \* start -north-> hall -north-> vault, each way listed in the document
       [rooms |->
            << [room_ref_id |-> "start",
                room_items |-> << [item |-> "lamp",
                                   item_room_description |-> "on the floor"] >>],
               [room_ref_id |-> "hall",
                room_items |-> << [item |-> "rustykey",
                                   item_room_description |-> NoPhrase] >>],
               [room_ref_id |-> "vault", room_items |-> << >>] >>,
        connections |->
            << [room |-> "start", direction |-> "north", target |-> "hall"],
               [room |-> "hall", direction |-> "south", target |-> "start"],
               [room |-> "hall", direction |-> "north", target |-> "vault"],
               [room |-> "vault", direction |-> "south", target |-> "hall"] >>],
       \* start and vault both list hall to their north; both items in start
       [rooms |->
            << [room_ref_id |-> "start",
                room_items |-> << [item |-> "lamp",
                                   item_room_description |-> "on the floor"],
                                  [item |-> "rustykey",
                                   item_room_description |-> NoPhrase] >>],
               [room_ref_id |-> "Hall", room_items |-> << >>],
               [room_ref_id |-> "vault", room_items |-> << >>] >>,
        connections |->
            << [room |-> "start", direction |-> "north", target |-> "hall"],
               [room |-> "vault", direction |-> "north", target |-> "hall"] >>] >>

\* Room.room_img after set_current_room: a room without an image of its own
\* gets the default image when it becomes the current room.
DefaultRoomImg == "/static/img/interface/default_room.webp"

RoomImg(room) == IF room = 3 THEN DefaultRoomImg ELSE "room.webp"

\* room_objects: reference key (lower case) -> room, a dict.  A key that is
\* set again keeps its place and takes the new room.
HasRef(room_objects, ref) ==
    \E i \in 1..Len(room_objects) : room_objects[i].ref = ref

RoomOfRef(room_objects, ref) ==
    room_objects[CHOOSE i \in 1..Len(room_objects) : room_objects[i].ref = ref].room

SetRef(room_objects, ref, room) ==
    IF HasRef(room_objects, ref)
    THEN [i \in 1..Len(room_objects) |->
            IF room_objects[i].ref = ref THEN [ref |-> ref, room |-> room]
            ELSE room_objects[i]]
    ELSE Append(room_objects, [ref |-> ref, room |-> room])

\* The room records are read in order.  A record without a reference key is
\* skipped: no room is built for it.
RECURSIVE load_rooms(_, _)
load_rooms(records, n) ==
    IF n = 0 THEN [rooms |-> {}, room_objects |-> << >>]
    ELSE LET before == load_rooms(records, n - 1)
             room_ref_id == records[n].room_ref_id
         IN IF room_ref_id = None \/ room_ref_id = ""
            THEN before
            ELSE [rooms |-> before.rooms \cup {n},
                  room_objects |-> SetRef(before.room_objects,
                                          Lower(room_ref_id), n)]

\* ------------------------------------------------- operations on containers
\* A mutant of mark_room_visited: the room is not added.
mark_room_visited_forgets(rs, visited, room_id) ==
    IF room_id \notin rs
    THEN [visited_rooms |-> visited, raised |-> "KeyError"]
    ELSE [visited_rooms |-> visited, raised |-> None]

\* A mutant of mark_room_visited: the rooms visited before are forgotten.
mark_room_visited_only(rs, visited, room_id) ==
    IF room_id \notin rs
    THEN [visited_rooms |-> visited, raised |-> "KeyError"]
    ELSE [visited_rooms |-> {room_id}, raised |-> None]

\* Map.mark_room_visited
mark_room_visited(rs, visited, room_id) ==
    IF room_id \notin rs
    THEN [visited_rooms |-> visited, raised |-> "KeyError"]
    ELSE [visited_rooms |-> visited \cup {room_id}, raised |-> None]

\* A mutant of set_current_room: the room is never found.
set_current_room_clears(rs, room_id) ==
    [current_room |-> NoRoom, current_room_id |-> NoRoom, raised |-> "ValueError"]

\* Dungeon.set_current_room: on failure the current room is cleared.
set_current_room(rs, room_id) ==
    IF room_id \in rs
    THEN [current_room |-> room_id, current_room_id |-> room_id, raised |-> None]
    ELSE [current_room |-> NoRoom, current_room_id |-> NoRoom,
          raised |-> "ValueError"]

\* Room.add_item
add_item(items, item, room_description) ==
    Append(items, [item |-> item, item_room_description |-> room_description])

\* Room.remove_item: every entry of the item is dropped; an item that is not
\* there (None included) leaves the list as it is.
remove_item(items, item) == SelectSeq(items, LAMBDA e : e.item # item)

\* Character.add_to_inventory: the item is appended, then its name is read
\* for a debug line, which raises for None.
add_to_inventory(inv, item) ==
    [inventory |-> Append(inv, item),
     raised |-> IF item = None THEN "AttributeError" ELSE None]

\* A mutant of remove_from_inventory: an item that is not there is passed
\* over.
remove_from_inventory_quiet(inv, item) ==
    [inventory |-> SelectSeq(inv, LAMBDA e : e # item), raised |-> None]

\* Character.remove_from_inventory: list.remove drops the first occurrence.
remove_from_inventory(inv, item) ==
    IF \E i \in 1..Len(inv) : inv[i] = item
    THEN LET i == CHOOSE j \in 1..Len(inv) :
                    inv[j] = item /\ \A k \in 1..(j - 1) : inv[k] # item
         IN [inventory |-> SubSeq(inv, 1, i - 1) \o SubSeq(inv, i + 1, Len(inv)),
             raised |-> None]
    ELSE [inventory |-> inv, raised |-> "ValueError"]

\* Room.get_items_names: an item is shown by its type, or by its name when
\* it has no type.
get_items_names(items) ==
    [i \in 1..Len(items) |->
        IF ItemType(items[i].item) # "" THEN ItemType(items[i].item)
        ELSE ItemName(items[i].item)]

\* Room.get_room_direction_info
get_room_direction_info(room) == room_direction_info[room]

\* ------------------------------------------------------------ load_dungeon
\* One entry of the connections map.  An entry whose room key or target key
\* names no room is passed over.  The direction name is then looked up in
\* the Direction enumeration, outside the try block of the entry: an unknown
\* name ends the load (load_dungeon catches the exception at its end).  For
\* the others load_dungeon first tears down the exit the room already has
\* in that direction, with the old target's exit back, then calls
\* connect_rooms; a KeyError or ValueError of these is swallowed.
load_connection(room_objects, rs, state, c) ==
    IF state.aborted
            \/ ~HasRef(room_objects, Lower(c.room))
            \/ ~HasRef(room_objects, Lower(c.target))
    THEN state
    ELSE IF Upper(c.direction) \notin Directions
    THEN [state EXCEPT !.aborted = TRUE]
    ELSE LET room == RoomOfRef(room_objects, Lower(c.room))
             target == RoomOfRef(room_objects, Lower(c.target))
             direction == Upper(c.direction)
             conn == state.connections
             opposite_direction == get_opposite(direction)
             torn ==
                IF HasExit(conn[room], direction)
                THEN LET old_target_id == ExitOf(conn[room], direction)
                         c1 == [conn EXCEPT ![room] = DelExit(@, direction)]
                     IN IF HasExit(c1[old_target_id], opposite_direction)
                        THEN [c1 EXCEPT ![old_target_id] =
                                            DelExit(@, opposite_direction)]
                        ELSE c1
                ELSE conn
         IN [state EXCEPT !.connections =
                connect_rooms(rs, torn, room, target, direction).connections]

RECURSIVE load_connections(_, _, _, _)
load_connections(room_objects, rs, state, cs) ==
    IF cs = << >> THEN state
    ELSE load_connections(room_objects, rs,
                          load_connection(room_objects, rs, state, Head(cs)),
                          Tail(cs))

\* The exits narration load_dungeon derives for a room from its exits: the
\* directions of its row, in order.
direction_descriptions(conn, room) ==
    [set |-> TRUE, exits |-> [i \in 1..Len(conn[room]) |-> conn[room][i].dir]]

\* Dungeon.load_dungeon: the rooms are registered in document order, the
\* first room of room_objects becomes the current room and is marked
\* visited, then the connections are made and the exits narration of every
\* room is set.  A load that has ended early leaves the narrations unset.
load_dungeon(doc) ==
    LET built == load_rooms(doc.rooms, Len(doc.rooms))
        rs == built.rooms
        first == IF built.room_objects = << >> THEN NoRoom
                 ELSE built.room_objects[1].room
        current == IF first = NoRoom
                   THEN [current_room |-> NoRoom, current_room_id |-> NoRoom,
                         raised |-> None]
                   ELSE set_current_room(rs, first)
        visited == IF first = NoRoom THEN {}
                   ELSE mark_room_visited(rs, {}, first).visited_rooms
        connected == load_connections(built.room_objects, rs,
                        [connections |-> [r \in Rooms |-> EmptyRow],
                         aborted |-> FALSE],
                        doc.connections)
    IN [rooms |-> rs,
        room_items |-> [r \in Rooms |->
                            IF r \in rs THEN doc.rooms[r].room_items ELSE << >>],
        current_room |-> current.current_room,
        current_room_id |-> current.current_room_id,
        visited_rooms |-> visited,
        connections |-> connected.connections,
        room_direction_info |->
            [r \in Rooms |->
                IF r \in rs /\ ~connected.aborted
                THEN direction_descriptions(connected.connections, r)
                ELSE NoNarration],
        aborted |-> connected.aborted]

\* ------------------------------------------------------- target resolution
\* The loop over the words and the room's items: `break` leaves the inner
\* loop only, so the last word that matches an item decides, and for that
\* word the first item of the list that it matches.
room_target_item(words, items) ==
    LET hits == {i \in 1..Len(words) :
                    \E j \in 1..Len(items) : WordMatchesItem(words[i], items[j].item)}
    IN IF hits = {} THEN None
       ELSE LET i == CHOOSE h \in hits : \A g \in hits : g <= h
                j == CHOOSE k \in 1..Len(items) :
                        /\ WordMatchesItem(words[i], items[k].item)
                        /\ \A m \in 1..(k - 1) : ~WordMatchesItem(words[i], items[m].item)
            IN items[j].item

\* A word matches an entry of the inventory that is an item.
EntryMatches(word, entry) == entry # None /\ WordMatchesItem(word, entry)

\* The entries of the inventory a word is tested against: those before the
\* first one it matches, and that one.
TestedEntries(word, inv) ==
    {j \in 1..Len(inv) : \A k \in 1..(j - 1) : ~EntryMatches(word, inv[k])}

\* The same loop over the player's inventory.  Reading the name of a None
\* entry raises AttributeError.
player_target_item(words, inv) ==
    IF \E i \in 1..Len(words) : \E j \in TestedEntries(words[i], inv) : inv[j] = None
    THEN [item |-> None, raised |-> "AttributeError"]
    ELSE LET hits == {i \in 1..Len(words) :
                        \E j \in 1..Len(inv) : EntryMatches(words[i], inv[j])}
         IN IF hits = {} THEN [item |-> None, raised |-> None]
            ELSE LET i == CHOOSE h \in hits : \A g \in hits : g <= h
                     j == CHOOSE k \in TestedEntries(words[i], inv) :
                            EntryMatches(words[i], inv[k])
                 IN [item |-> inv[j], raised |-> None]

\* ------------------------------------------------------------ parse_command
\* The locals of parse_command that the properties speak of.
NoLocals ==
    [direction |-> None, room_target_item |-> None, player_target_item |-> None]

\* A mutant of Message: the text is lost.
Message_blank(text) == [NoMessage EXCEPT !.text = ""]

Message(text) == [NoMessage EXCEPT !.text = text]

\* A mutant of Outcome: the call leaves the current room bare.
Outcome_room_emptied(cr, cr_id, visited, inv, items, res) ==
    [current_room |-> cr, current_room_id |-> cr_id, visited_rooms |-> visited,
     inventory |-> inv,
     room_items |-> [r \in DOMAIN items |-> IF r = cr THEN << >> ELSE items[r]],
     result |-> res]

\* What a call leaves behind: the session state and the result.
Outcome(cr, cr_id, visited, inv, items, res) ==
    [current_room |-> cr, current_room_id |-> cr_id, visited_rooms |-> visited,
     inventory |-> inv, room_items |-> items, result |-> res]

\* An exception leaves parse_command.
Raise(exception, action, locals) ==
    [raised |-> exception, returned |-> FALSE, action |-> action,
     message |-> NoMessage, room_img |-> None, direction |-> locals.direction,
     room_target_item |-> locals.room_target_item,
     player_target_item |-> locals.player_target_item]

\* The return statement reads the image of the current room, which raises
\* when there is no current room.
Return(cr, action, message, locals) ==
    IF cr = NoRoom THEN Raise("AttributeError", action, locals)
    ELSE [raised |-> None, returned |-> TRUE, action |-> action,
          message |-> message, room_img |-> RoomImg(cr),
          direction |-> locals.direction,
          room_target_item |-> locals.room_target_item,
          player_target_item |-> locals.player_target_item]

\* The MOVE branch.  The direction taken is the first direction of the
\* enumeration that the command names.
move_command(words, remaining) ==
    LET available_directions ==
            IF current_room_id # NoRoom /\ current_room_id \in rooms
            THEN LET connected_rooms == get_connected_rooms(connections,
                                                            current_room_id)
                 IN [i \in 1..Len(connected_rooms) |-> connected_rooms[i].dir]
            ELSE << >>
        directions == command_directions(words)
        stay(message, locals) ==
            Outcome(current_room, current_room_id, visited_rooms, inventory,
                    room_items, Return(current_room, "MOVE", message, locals))
    IN IF current_room = NoRoom
       THEN Outcome(current_room, current_room_id, visited_rooms, inventory,
                    room_items, Raise("AttributeError", "MOVE", NoLocals))
       ELSE IF Len(directions) = 0
       THEN IF available_directions # << >>
            THEN IF remaining # << >>
                 THEN stay([Message("You can't move") EXCEPT
                                !.words = remaining,
                                !.exits = get_room_direction_info(current_room).exits],
                           NoLocals)
                 ELSE stay([Message("What direction do you want to move in?") EXCEPT
                                !.exits = get_room_direction_info(current_room).exits],
                           NoLocals)
            ELSE stay(Message("You are stuck! There are no exits from this room."),
                      NoLocals)
       ELSE LET primary_direction == directions[1]
                locals == [NoLocals EXCEPT !.direction = primary_direction]
                connected == get_connected_room(rooms, connections,
                                                current_room_id, primary_direction)
            IN IF connected.raised # None \/ connected.room = NoRoom
               THEN stay(Message("You can't go that direction."), locals)
               ELSE LET set == set_current_room(rooms, connected.room)
                        marked == mark_room_visited(rooms, visited_rooms,
                                                    connected.room)
                    IN IF set.raised # None
                       THEN Outcome(set.current_room, set.current_room_id,
                                    visited_rooms, inventory, room_items,
                                    Return(set.current_room, "MOVE",
                                           Message("You can't go that direction."),
                                           locals))
                       ELSE Outcome(set.current_room, set.current_room_id,
                                    marked.visited_rooms, inventory, room_items,
                                    Return(set.current_room, "MOVE",
                                           IF marked.raised # None
                                           THEN Message("You can't go that direction.")
                                           ELSE [Message("You move") EXCEPT
                                                    !.direction = primary_direction,
                                                    !.description = connected.room,
                                                    !.exits = get_room_direction_info(
                                                                connected.room).exits],
                                           locals))

\* The branch of the verbs that take a target (every action other than
\* INIT, HELP, CLEAR, INVENTORY, LOOK and MOVE).  The inventory of the
\* player is read before anything else, which raises when no player is
\* attached; the later tests for a missing player are never reached.
verb_command(action, remaining) ==
    LET here == room_items[current_room]
        stay(res) == Outcome(current_room, current_room_id, visited_rooms, inventory, room_items, res)
        say(message, locals) == stay(Return(current_room, action, message, locals))
    IN IF remaining = << >>
       THEN say([Message("What do you want to") EXCEPT !.verb = action], NoLocals)
       ELSE IF current_room = NoRoom \/ player_character = None
       THEN stay(Raise("AttributeError", action, NoLocals))
       ELSE LET in_room == room_target_item(remaining, here)
                in_hand == player_target_item(remaining, inventory)
                locals == [direction |-> None, room_target_item |-> in_room,
                           player_target_item |-> in_hand.item]
                target_item == IF in_room # None THEN in_room ELSE in_hand.item
            IN IF in_hand.raised # None
               THEN stay(Raise(in_hand.raised, action,
                               [NoLocals EXCEPT !.room_target_item = in_room]))
               ELSE IF in_room = None /\ in_hand.item = None
               THEN say([Message("I don't see anything called") EXCEPT
                            !.words = remaining, !.verb = action], locals)
               ELSE CASE action = "EXAMINE" ->
                        say([Message("You examine the") EXCEPT !.item = target_item],
                            locals)
                      [] action = "TAKE" ->
                        LET items == [room_items EXCEPT
                                        ![current_room] = remove_item(@, in_room)]
                            added == add_to_inventory(inventory, in_room)
                        IN IF added.raised # None
                           THEN Outcome(current_room, current_room_id, visited_rooms, added.inventory,
                                        items, Raise(added.raised, action, locals))
                           ELSE Outcome(current_room, current_room_id, visited_rooms, added.inventory,
                                        items,
                                        Return(current_room, action,
                                               [Message("You take") EXCEPT
                                                    !.item = in_room], locals))
                      [] action = "DROP" ->
                        IF in_hand.item # None
                        THEN LET removed == remove_from_inventory(inventory,
                                                                  in_hand.item)
                                 items == [room_items EXCEPT
                                            ![current_room] =
                                                add_item(@, in_hand.item, "")]
                             IN IF removed.raised # None
                                THEN stay(Raise(removed.raised, action, locals))
                                ELSE Outcome(current_room, current_room_id, visited_rooms,
                                             removed.inventory, items,
                                             Return(current_room, action,
                                                    [Message("You drop") EXCEPT
                                                        !.item = in_hand.item],
                                                    locals))
                        ELSE say([Message("You don't have anything called") EXCEPT
                                    !.words = remaining], locals)
                      [] action = "GIVE" ->
                        say(Message("<Not implemented> Give item."), locals)
                      [] action = "ATTACK" ->
                        say(Message("<Not implemented> What do you want to attack?"),
                            locals)
                      [] action = "TALK" ->
                        say(Message("<Not implemented> Who do you want to talk to?"),
                            locals)
                      [] OTHER -> say(Message(""), locals)

\* Dungeon.parse_command: the outcomes of a command in the current state,
\* one for each answer random.choice can pick.
parse_command(command) ==
    LET words == command_words(command)
        actions == command_actions(words)
        stay(res) == Outcome(current_room, current_room_id, visited_rooms, inventory, room_items, res)
        say(action, message) ==
            stay(Return(current_room, action, message, NoLocals))
    IN IF Len(actions) = 0
       THEN {say("NONE", Message(text)) : text \in default_response}
       ELSE IF naughty_word_list \cap {words[i] : i \in 1..Len(words)} # {}
       THEN {say("NONE", Message(text)) : text \in naughty_response}
       ELSE LET primary_action == actions[1].name
                remaining == remaining_command_words(words)
            IN CASE primary_action = "INIT" ->
                    \* room_description is not bound in this branch
                    {stay(Raise("UnboundLocalError", "INIT", NoLocals))}
                 [] primary_action = "HELP" ->
                    {say("HELP", Message("~ Available Commands ~"))}
                 [] primary_action = "CLEAR" ->
                    {say("CLEAR", Message("CLEAR_OUTPUT"))}
                 [] primary_action = "INVENTORY" ->
                    IF player_character = None
                    THEN {say("INVENTORY",
                              Message("You need to set a player character first."))}
                    ELSE IF inventory = << >>
                    THEN {say("INVENTORY", Message("Your inventory is empty."))}
                    ELSE IF \E i \in 1..Len(inventory) : inventory[i] = None
                    THEN {stay(Raise("AttributeError", "INVENTORY", NoLocals))}
                    ELSE {say("INVENTORY",
                              [Message("Your inventory contains:") EXCEPT
                                    !.items = [i \in 1..Len(inventory) |->
                                                    ItemName(inventory[i])]])}
                 [] primary_action = "LOOK" ->
                    IF current_room # NoRoom
                    THEN {say("LOOK",
                              [Message("look") EXCEPT
                                    !.description = current_room,
                                    !.items = get_items_names(room_items[current_room]),
                                    !.exits = get_room_direction_info(
                                                    current_room).exits])}
                    ELSE {say("LOOK",
                              Message("You can't see anything in the darkness."))}
                 [] primary_action = "MOVE" -> {move_command(words, remaining)}
                 [] OTHER -> {verb_command(primary_action, remaining)}

\* The session state is the one load_dungeon leaves for the document.
Loaded(doc) ==
    LET loaded == load_dungeon(doc)
    IN /\ rooms = loaded.rooms
       /\ connections = loaded.connections
       /\ visited_rooms = loaded.visited_rooms
       /\ current_room = loaded.current_room
       /\ current_room_id = loaded.current_room_id
       /\ room_items = loaded.room_items
       /\ room_direction_info = loaded.room_direction_info
       /\ npcs = [r \in Rooms |-> << >>]
       /\ is_locked = [r \in Rooms |-> FALSE]

\* ------------------------------------------------- loading as a state machine
\* The documents of the model: three room records (the first holds the
\* lamp, the second the rusty key) under several lists of reference keys -
\* all different, the first record without a key, the first key borne
\* twice, no record at all - and every connections map of at most
\* MaxConnections entries over the keys and direction names below.
\* "nowhere" is the key of no room, "sideways" the name of no direction.
MaxConnections == 2

RefLists ==
    {<<"start", "hall", "vault">>, <<None, "hall", "vault">>,
     <<"start", "start", "vault">>, << >>}

RefKeys == {"start", "hall", "vault", "nowhere"}

DirectionNames == {"north", "south", "sideways"}

RoomRecords(refs) ==
    [n \in 1..Len(refs) |->
        [room_ref_id |-> refs[n],
         room_items |->
            IF n = 1
            THEN << [item |-> "lamp", item_room_description |-> "on the floor"] >>
            ELSE IF n = 2
            THEN << [item |-> "rustykey", item_room_description |-> NoPhrase] >>
            ELSE << >>]]

ConnectionRecords ==
    [room : RefKeys, direction : DirectionNames, target : RefKeys]

Documents ==
    {[rooms |-> RoomRecords(refs), connections |-> cs] :
        refs \in RefLists,
        cs \in UNION {[1..n -> ConnectionRecords] : n \in 0..MaxConnections}}

\* A Dungeon before load_dungeon: no map, no current room, no player.
LoadInit ==
    /\ rooms = {}
    /\ connections = [r \in Rooms |-> EmptyRow]
    /\ visited_rooms = {}
    /\ call = NoCall
    /\ outcome = None
    /\ ncalls = 0
    /\ NoSession

\* The constructor's call of load_dungeon.  Every exception of the load is
\* caught inside it.
LoadDungeon(doc) ==
    /\ call = NoCall
    /\ LET loaded == load_dungeon(doc)
       IN /\ rooms' = loaded.rooms
          /\ connections' = loaded.connections
          /\ visited_rooms' = loaded.visited_rooms
          /\ current_room' = loaded.current_room
          /\ current_room_id' = loaded.current_room_id
          /\ room_items' = loaded.room_items
          /\ room_direction_info' = loaded.room_direction_info
    /\ call' = [op |-> "load_dungeon", document |-> doc]
    /\ outcome' = None
    /\ UNCHANGED <<ncalls, player_character, inventory, result, before_take,
                   roomVars, serverVars, svg>>

LoadNext == \E doc \in Documents : LoadDungeon(doc)

SpecLoad == LoadInit /\ [][LoadNext]_vars

\* ------------------------------------------------ the session state machine
\* A session starts from a loaded world, with no player attached (the API
\* builds the Dungeon and loads it; set_player_character is a later call).
GameInit ==
    /\ \E w \in 1..Len(Worlds) : Loaded(Worlds[w])
    /\ player_character = None
    /\ inventory = << >>
    /\ result = NoResult
    /\ before_take = NoSnapshot
    /\ call = NoCall
    /\ outcome = None
    /\ ncalls = 0
    /\ NoServer
    /\ svg = NoSvg

\* Dungeon.set_player_character, called once in a session: a fresh
\* character with an empty inventory.
SetPlayerCharacter ==
    /\ player_character = None
    /\ player_character' = "player"
    /\ inventory' = << >>
    /\ call' = [op |-> "set_player_character", command |-> << >>,
                room |-> current_room]
    /\ outcome' = None
    /\ UNCHANGED <<rooms, connections, visited_rooms, ncalls, current_room,
                   current_room_id, room_items, result, before_take,
                   room_direction_info, roomVars, serverVars, svg>>

\* A mutant of ParseCommand: the call is suspended inside the MOVE commit,
\* after the current room is set and before the room is marked visited.
ParseCommand_suspended(command) ==
    \E o \in parse_command(command) :
        /\ current_room' = o.current_room
        /\ current_room_id' = o.current_room_id
        /\ visited_rooms' = visited_rooms
        /\ inventory' = o.inventory
        /\ room_items' = o.room_items
        /\ result' = o.result
        /\ before_take' = NoSnapshot
        /\ call' = [op |-> "parse_command", command |-> command,
                    room |-> current_room]
        /\ outcome' = o.result.raised
        /\ UNCHANGED <<rooms, connections, ncalls, player_character,
                       room_direction_info, roomVars, sessions, session_id,
                       svg>>

\* A mutant of ParseCommand: the room that is current after the call is
\* registered in the map again (add_room), which empties its row of exits.
ParseCommand_registers(command) ==
    \E o \in parse_command(command) :
        /\ Len(o.inventory) <= MaxInventory
        /\ current_room' = o.current_room
        /\ current_room_id' = o.current_room_id
        /\ visited_rooms' = o.visited_rooms
        /\ inventory' = o.inventory
        /\ room_items' = o.room_items
        /\ result' = o.result
        /\ before_take' = NoSnapshot
        /\ call' = [op |-> "parse_command", command |-> command,
                    room |-> current_room]
        /\ outcome' = o.result.raised
        /\ connections' = IF o.current_room = NoRoom THEN connections
                          ELSE add_room(connections, o.current_room)
        /\ UNCHANGED <<rooms, ncalls, player_character,
                       room_direction_info, roomVars, sessions, session_id,
                       svg>>

\* One parse_command call.  call.room is the room in which the command was
\* given; before_take remembers the containers as they were before a TAKE
\* that moved an item.  The requests in flight are the caller's.
ParseCommand(command) ==
    \E o \in parse_command(command) :
        /\ Len(o.inventory) <= MaxInventory
        /\ current_room' = o.current_room
        /\ current_room_id' = o.current_room_id
        /\ visited_rooms' = o.visited_rooms
        /\ inventory' = o.inventory
        /\ room_items' = o.room_items
        /\ result' = o.result
        /\ before_take' =
            IF o.result.returned /\ o.result.action = "TAKE"
                /\ o.result.room_target_item # None
            THEN [taken |-> o.result.room_target_item, room_items |-> room_items,
                  inventory |-> inventory]
            ELSE NoSnapshot
        /\ call' = [op |-> "parse_command", command |-> command,
                    room |-> current_room]
        /\ outcome' = o.result.raised
        /\ UNCHANGED <<rooms, connections, ncalls, player_character,
                       room_direction_info, roomVars, sessions, session_id,
                       svg>>

GameNext ==
    \/ SetPlayerCharacter
    \/ \E command \in GameCommands :
            ParseCommand(command) /\ UNCHANGED requests

SpecGame == GameInit /\ [][GameNext]_vars

\* ------------------------------------------- properties of the interpreter
\* The step is a parse_command call.
IsParseCommand == call'.op = "parse_command"

\* The directions a command names.
NamedDirections(command) ==
    LET directions == command_directions(command_words(command))
    IN {directions[i] : i \in 1..Len(directions)}

\* What a MOVE to the exit in direction d does, in the words of the
\* specification: the current room becomes the target of the exit, the
\* target is visited, the message carries the description of the target, and
\* the inventory and the item lists are as before.
MovedThrough(d) ==
    LET target == ExitOf(connections[current_room], d)
    IN /\ result'.returned
       /\ current_room' = target
       /\ current_room_id' = target
       /\ visited_rooms' = visited_rooms \cup {target}
       /\ result'.message.description = target
       /\ inventory' = inventory
       /\ room_items' = room_items

\* C5: parse_command never raises: every call returns a result that carries
\* an action, a message and a room image, whether or not a player is
\* attached.
C5_ParseCommandNeverRaises ==
    call.op = "parse_command" =>
        /\ outcome = None
        /\ result.returned
        /\ result.action # None
        /\ result.message # NoMessage
        /\ result.room_img # None

\* C6 as stated: a MOVE command that names a direction d in which the current
\* room has an exit moves through that exit.
C6_MoveThroughAnyNamedDirection ==
    [][ \A d \in Directions :
            ( /\ IsParseCommand
              /\ result'.action = "MOVE"
              /\ d \in NamedDirections(call'.command)
              /\ HasExit(connections[current_room], d) )
            => MovedThrough(d) ]_vars

\* C6, amended: a MOVE command moves through the exit in direction d when d
\* is, of the directions the command names, the first one in the order of
\* the Direction enumeration, and the current room has an exit in d.
C6_MoveThroughFirstNamedDirection ==
    [][ ( /\ IsParseCommand
          /\ result'.action = "MOVE"
          /\ command_directions(command_words(call'.command)) # << >>
          /\ HasExit(connections[current_room],
                     command_directions(command_words(call'.command))[1]) )
        => MovedThrough(command_directions(command_words(call'.command))[1]) ]_vars

\* A MOVE that names two directions has moved through the exit of the first
\* of them in enumeration order.
C6_Witness ==
    /\ call.op = "parse_command"
    /\ call.command = <<"go", "south", "north">>
    /\ result.message.text = "You move"
    /\ result.direction = "NORTH"
    /\ current_room = 3
    /\ visited_rooms = {1, 2, 3}

\* C7: the current room and the visited set change only in a parse_command
\* call whose primary action is MOVE and which names a direction in which the
\* current room has an exit; every other step leaves them as they were.
C7_OnlyMoveChangesRoom ==
    [][ ( \/ current_room' # current_room
          \/ current_room_id' # current_room_id
          \/ visited_rooms' # visited_rooms )
        => ( /\ IsParseCommand
             /\ result'.action = "MOVE"
             /\ \E d \in NamedDirections(call'.command) :
                    HasExit(connections[current_room], d) ) ]_vars

\* A MOVE that names a direction without an exit, and a TAKE that moved an
\* item, have left the player in a room other than the start.
C7_Witness ==
    /\ call.op = "parse_command"
    /\ current_room = 2
    /\ \/ result.message.text = "You can't go that direction."
       \/ result.message.text = "You take"

\* The number of entries of a room's item list that hold the item.
HeldInRoom(item, r) ==
    Cardinality({i \in 1..Len(room_items[r]) : room_items[r][i].item = item})

\* The number of entries of the inventory that are the item.
HeldInInventory(item) ==
    Cardinality({i \in 1..Len(inventory) : inventory[i] = item})

\* The number of times an item is held, over the inventory and the item
\* lists of all rooms.
RECURSIVE HeldInRooms(_, _)
HeldInRooms(item, rs) ==
    IF rs = {} THEN 0
    ELSE LET r == CHOOSE x \in rs : TRUE
         IN HeldInRoom(item, r) + HeldInRooms(item, rs \ {r})

Held(item) == HeldInInventory(item) + HeldInRooms(item, rooms)

\* C8: once a player is attached, every item of the load document is held
\* exactly once, by one room or by the inventory, and the inventory and the
\* item lists hold nothing but these items.
C8_EveryItemHeldOnce ==
    player_character # None =>
        /\ \A item \in Items : Held(item) = 1
        /\ \A i \in 1..Len(inventory) : inventory[i] \in Items
        /\ \A r \in rooms : \A i \in 1..Len(room_items[r]) :
                room_items[r][i].item \in Items

\* C9: a DROP of the item that the command before it took from the current
\* room leaves the item lists (items with their placement phrases) and the
\* inventory as they were before the TAKE.
C9_TakeThenDropRestores ==
    [][ ( /\ before_take.taken # None
          /\ IsParseCommand
          /\ result'.action = "DROP"
          /\ result'.message.text = "You drop"
          /\ result'.message.item = before_take.taken )
        => ( /\ room_items' = before_take.room_items
             /\ inventory' = before_take.inventory ) ]_vars

\* C10: with a player attached, a command whose primary action is TAKE and
\* whose remainder has a word that matches an item of the current room moves
\* the item the parser resolves in the room from the room's list to the
\* inventory, and leaves the current room and the visited set as they were.
C10_TakeMovesRoomItem ==
    [][ ( /\ IsParseCommand
          /\ player_character # None
          /\ result'.action = "TAKE"
          /\ room_target_item(
                remaining_command_words(command_words(call'.command)),
                room_items[current_room]) # None )
        => LET item == room_target_item(
                            remaining_command_words(command_words(call'.command)),
                            room_items[current_room])
           IN /\ \A i \in 1..Len(room_items'[current_room]) :
                    room_items'[current_room][i].item # item
              /\ \E i \in 1..Len(inventory') : inventory'[i] = item
              /\ current_room' = current_room
              /\ current_room_id' = current_room_id
              /\ visited_rooms' = visited_rooms ]_vars

\* The words of the command of the step.
StepWords == command_words(call'.command)

\* The session state is left as it was.
SessionUnchanged ==
    /\ current_room' = current_room
    /\ current_room_id' = current_room_id
    /\ visited_rooms' = visited_rooms
    /\ inventory' = inventory
    /\ room_items' = room_items

\* C11: a TAKE command that names an item of the current room while no
\* player is attached leaves the room's item list as it was and returns the
\* no-player message as a normal result.
C11_TakeWithoutPlayer ==
    [][ ( /\ IsParseCommand
          /\ player_character = None
          /\ result'.action = "TAKE"
          /\ room_target_item(remaining_command_words(StepWords),
                              room_items[current_room]) # None )
        => ( /\ room_items' = room_items
             /\ result'.returned
             /\ result'.message.text = "You need to set a player character first." )
      ]_vars

\* C12: a command none of whose words is an alias of an action returns the
\* action NONE with a message of default_response and leaves the session
\* state as it was.
C12_NoActionWord ==
    [][ ( /\ IsParseCommand
          /\ \A i \in 1..Len(StepWords) :
                StepWords[i] \notin available_action_words_alias )
        => ( /\ result'.returned
             /\ result'.action = "NONE"
             /\ result'.message.text \in default_response
             /\ SessionUnchanged ) ]_vars

\* A command without an action word was answered while the player held an
\* item.
C12_Witness ==
    /\ call.op = "parse_command"
    /\ call.command = <<"Lamp">>
    /\ result.action = "NONE"
    /\ result.message.text = "Nope."
    /\ inventory # << >>

\* C13 as stated: every command with a word of naughty_word_list is answered
\* with a message of naughty_response, whatever its other words.
C13_NaughtyWordAlwaysRebuked ==
    [][ ( /\ IsParseCommand
          /\ \E i \in 1..Len(StepWords) : StepWords[i] \in naughty_word_list )
        => ( /\ result'.returned
             /\ result'.message.text \in naughty_response ) ]_vars

\* C13, amended: a command with a word of naughty_word_list and a word that
\* is an alias of an action is answered with a message of naughty_response.
C13_NaughtyWordWithActionRebuked ==
    [][ ( /\ IsParseCommand
          /\ \E i \in 1..Len(StepWords) : StepWords[i] \in naughty_word_list
          /\ \E i \in 1..Len(StepWords) :
                StepWords[i] \in available_action_words_alias )
        => ( /\ result'.returned
             /\ result'.message.text \in naughty_response
             /\ SessionUnchanged ) ]_vars

\* A MOVE command with a naughty word was rebuked.
C13_Witness ==
    /\ call.op = "parse_command"
    /\ call.command = <<"go", "shit">>
    /\ result.message.text = "Rude!"

\* C14: when the command before moved the player in direction d from room A
\* to room B, a MOVE in the direction opposite to d moves the player back
\* to A.
C14_MoveBack ==
    [][ ( /\ call.op = "parse_command"
          /\ result.message.text = "You move"
          /\ IsParseCommand
          /\ result'.action = "MOVE"
          /\ command_directions(StepWords) = <<get_opposite(result.direction)>> )
        => ( /\ result'.message.text = "You move"
             /\ current_room' = call.room
             /\ current_room_id' = call.room ) ]_vars

\* C15: the visited set is the set of the rooms that have been the current
\* room: it is {current room} after the load, and every step adds the room
\* that is current after it and nothing else, so that the current room is
\* always visited and no room leaves the set.
C15_VisitedIsOccupied ==
    /\ visited_rooms = {current_room}
    /\ [][visited_rooms' = visited_rooms \cup {current_room'}]_vars

\* The player went to another room and came back.
C15_Witness ==
    /\ current_room = 1
    /\ visited_rooms = {1, 2}
    /\ result.message.text = "You move"

\* C16: in a session of a loaded world the current room is never None, is a
\* room of the map, and current_room_id is its identity.
C16_CurrentRoomRegistered ==
    /\ current_room # NoRoom
    /\ current_room \in rooms
    /\ current_room_id = current_room

\* A command has raised in a room the player moved to.
C16_Witness ==
    /\ call.op = "parse_command"
    /\ outcome # None
    /\ current_room = 3

\* C17: after load_dungeon the adjacency table is symmetric, whatever the
\* connections of the document.
C17_LoadedAdjacencySymmetric ==
    call.op = "load_dungeon" =>
        \A a \in rooms, d \in Directions :
            LET b == ExitOf(connections[a], d)
            IN b # NoRoom => ExitOf(connections[b], get_opposite(d)) = a

\* A connection entry is valid in a document: its room key and its target
\* key are keys of room records, and its direction name is a direction.
ValidConnection(doc, c) ==
    LET keys == {Lower(doc.rooms[n].room_ref_id) : n \in 1..Len(doc.rooms)}
    IN /\ Lower(c.room) \in keys
       /\ Lower(c.target) \in keys
       /\ Upper(c.direction) \in Directions

\* C18: load_dungeon skips the invalid connection entries of a document: the
\* adjacency table it leaves is the one it leaves for the document without
\* these entries, and every room has its exits narration.
C18_InvalidConnectionsSkipped ==
    call.op = "load_dungeon" =>
        LET doc == call.document
            valid == [doc EXCEPT !.connections =
                        SelectSeq(@, LAMBDA c : ValidConnection(doc, c))]
        IN /\ connections = load_dungeon(valid).connections
           /\ \A r \in rooms : room_direction_info[r].set

\* The first room record of a document that has a reference key.
FirstKeyedRecord(doc) ==
    CHOOSE n \in 1..Len(doc.rooms) :
        /\ doc.rooms[n].room_ref_id # None
        /\ \A m \in 1..(n - 1) : doc.rooms[m].room_ref_id = None

\* C19: after the load of a document with at least one room (a room record
\* that has a reference key) the current room is the first of these rooms
\* and it is the only room visited.
C19_FirstRoomCurrent ==
    ( /\ call.op = "load_dungeon"
      /\ \E n \in 1..Len(call.document.rooms) :
            call.document.rooms[n].room_ref_id # None )
    => /\ current_room = FirstKeyedRecord(call.document)
       /\ current_room_id = FirstKeyedRecord(call.document)
       /\ visited_rooms = {FirstKeyedRecord(call.document)}

\* ------------------------------------------ target resolution on its own
\* The two loops of parse_command applied to a remainder of at most
\* MaxTargetWords words and a collection of at most MaxCollection items.
MaxTargetWords == 2
MaxCollection == 2

TargetWords == {"key", "lamp", "something"}

Remainders == UNION {[1..n -> TargetWords] : n \in 1..MaxTargetWords}

Collections ==
    {c \in UNION {[1..n -> MoreItems] : n \in 0..MaxCollection} :
        \A i \in 1..Len(c), j \in 1..Len(c) : c[i] = c[j] => i = j}

\* The collection as the item list of a room.
AsRoomItems(collection) ==
    [i \in 1..Len(collection) |->
        [item |-> collection[i], item_room_description |-> NoPhrase]]

\* call.words and call.items are the remainder and the collection; the
\* result holds the item found when the collection is the item list of the
\* room, and when it is the inventory.
ResolveTarget(words, collection) ==
    /\ call = NoCall
    /\ call' = [op |-> "resolve", words |-> words, items |-> collection]
    /\ result' = [NoResult EXCEPT
                    !.room_target_item =
                        room_target_item(words, AsRoomItems(collection)),
                    !.player_target_item =
                        player_target_item(words, collection).item]
    /\ outcome' = player_target_item(words, collection).raised
    /\ UNCHANGED <<rooms, connections, visited_rooms, ncalls, current_room,
                   current_room_id, player_character, inventory, room_items,
                   before_take, room_direction_info, roomVars, serverVars, svg>>

ResolveNext ==
    \E words \in Remainders, collection \in Collections :
        ResolveTarget(words, collection)

SpecResolve == LoadInit /\ [][ResolveNext]_vars

\* The items of a collection that a word matches by name, and by alias.
MatchedByName(word, collection) ==
    {collection[i] : i \in {j \in 1..Len(collection) :
                                Lower(word) = Lower(ItemName(collection[j]))}}

MatchedByAlias(word, collection) ==
    {collection[i] : i \in {j \in 1..Len(collection) :
                                \E alias \in ItemAlias(collection[j]) :
                                    Lower(word) = Lower(alias)}}

\* C20: for a remainder of one word, when an item of the collection has the
\* word as its name the item found is one of these; otherwise, when an item
\* has the word among its aliases, the item found is one of these (and not
\* an item that has the word as its type only).
C20_NameThenAliasThenType ==
    (call.op = "resolve" /\ Len(call.words) = 1) =>
        LET word == call.words[1]
            named == MatchedByName(word, call.items)
            aliased == MatchedByAlias(word, call.items)
        IN /\ named # {} =>
                /\ result.room_target_item \in named
                /\ result.player_target_item \in named
           /\ (named = {} /\ aliased # {}) =>
                /\ result.room_target_item \in aliased
                /\ result.player_target_item \in aliased

\* ------------------------------------------------- the verbs with a target
\* The session of SpecGame under the verbs that SpecGame leaves out, with
\* an NPC that can be put into a room.
MaxNpcs == 1

Npcs == {"guard"}

NpcName(npc) == CASE npc = "guard" -> "Guard"

NpcAlias(npc) == CASE npc = "guard" -> "sentinel"

\* npc_list of parse_command: the lowercased names of the NPCs of the
\* room, then their lowercased aliases.  parse_command builds the list and
\* never reads it: the block that looked words up in it is a string literal.
npc_list(room) ==
    [i \in 1..Len(npcs[room]) |-> Lower(NpcName(npcs[room][i]))]
        \o [i \in 1..Len(npcs[room]) |-> Lower(NpcAlias(npcs[room][i]))]

\* Room.add_npc
add_npc(list, npc) == Append(list, npc)

VerbCommands ==
    {<<"talk", "Guard">>, <<"attack", "sentinel">>, <<"talk", "Lamp">>,
     <<"talk">>, <<"eat", "Lamp">>, <<"drink", "Lamp">>, <<"smell", "Key!">>,
     <<"break", "Lamp">>, <<"read", "Key!">>, <<"examine", "Lamp">>,
     <<"take", "Lamp">>, <<"go", "north">>}

\* Map.add_npc_to_room
AddNpcToRoom(room_id, npc) ==
    /\ Len(npcs[room_id]) < MaxNpcs
    /\ IF room_id \in rooms
       THEN /\ npcs' = [npcs EXCEPT ![room_id] = add_npc(@, npc)]
            /\ outcome' = None
       ELSE /\ npcs' = npcs
            /\ outcome' = "KeyError"
    /\ call' = [op |-> "add_npc_to_room", command |-> << >>, room |-> room_id]
    /\ UNCHANGED <<rooms, connections, visited_rooms, ncalls, current_room,
                   current_room_id, player_character, inventory, room_items,
                   result, before_take, room_direction_info, is_locked,
                   serverVars, svg>>

VerbNext ==
    \/ SetPlayerCharacter
    \/ \E room_id \in Rooms, npc \in Npcs : AddNpcToRoom(room_id, npc)
    \/ \E command \in VerbCommands :
            ParseCommand(command) /\ UNCHANGED requests

SpecVerbs == GameInit /\ [][VerbNext]_vars

\* The remainder of the last command.
Remainder == remaining_command_words(command_words(call.command))

\* C21: after a returned TALK or ATTACK command whose remainder is one word
\* that matched no item of the room and no item of the inventory and is the
\* name or the alias of an NPC of the room, the message is not "I don't see
\* anything called ...".
C21_NpcResolved ==
    ( /\ call.op = "parse_command"
      /\ result.returned
      /\ result.action \in {"TALK", "ATTACK"}
      /\ result.room_target_item = None
      /\ result.player_target_item = None
      /\ Len(Remainder) = 1
      /\ \E i \in 1..Len(npc_list(call.room)) :
            npc_list(call.room)[i] = Remainder[1] )
    => result.message.text # "I don't see anything called"

\* C22: after a returned EAT, DRINK, SMELL, BREAK or READ command whose
\* remainder resolved to an item (of the room or of the inventory), the
\* message is a text and not the empty string.
C22_InventoryVerbAnswers ==
    ( /\ call.op = "parse_command"
      /\ result.returned
      /\ result.action \in {"EAT", "DRINK", "SMELL", "BREAK", "READ"}
      /\ (result.room_target_item # None \/ result.player_target_item # None) )
    => result.message.text # ""

\* ------------------------------------------------------------ lock and key
\* The keys, and the room whose reference a key carries in
\* unlock_room_ref_id.
Keys == {"rustykey", "ironkey"}

unlock_room_ref_id(key) ==
    CASE key = "rustykey" -> 3
      [] key = "ironkey" -> 2

\* key.can_unlock(room_id): neither Key nor Item defines can_unlock, so the
\* attribute lookup raises.
can_unlock(key, room_id) == [raised |-> "AttributeError", value |-> FALSE]

\* Room.lock
lock(locked, room) == [locked EXCEPT ![room] = TRUE]

\* Room.unlock
unlock(locked, room, key) ==
    IF key = None
    THEN [is_locked |-> [locked EXCEPT ![room] = FALSE], raised |-> None]
    ELSE LET test == can_unlock(key, room)
         IN IF test.raised # None
            THEN [is_locked |-> locked, raised |-> test.raised]
            ELSE IF ~test.value
            THEN [is_locked |-> locked, raised |-> "RoomLockError"]
            ELSE [is_locked |-> [locked EXCEPT ![room] = FALSE],
                  raised |-> None]

\* call.locked is the lock of the room before the call.
Lock(room) ==
    /\ is_locked' = lock(is_locked, room)
    /\ outcome' = None
    /\ call' = [op |-> "lock", room |-> room, key |-> None,
                locked |-> is_locked[room]]
    /\ UNCHANGED <<rooms, connections, visited_rooms, ncalls, current_room,
                   current_room_id, player_character, inventory, room_items,
                   result, before_take, room_direction_info, npcs,
                   serverVars, svg>>

Unlock(room, key) ==
    /\ LET res == unlock(is_locked, room, key)
       IN /\ is_locked' = res.is_locked
          /\ outcome' = res.raised
    /\ call' = [op |-> "unlock", room |-> room, key |-> key,
                locked |-> is_locked[room]]
    /\ UNCHANGED <<rooms, connections, visited_rooms, ncalls, current_room,
                   current_room_id, player_character, inventory, room_items,
                   result, before_take, room_direction_info, npcs,
                   serverVars, svg>>

LockNext ==
    \/ \E room \in Rooms : Lock(room)
    \/ \E room \in Rooms, key \in Keys \cup {None} : Unlock(room, key)

SpecLock == GameInit /\ [][LockNext]_vars

\* C23: after unlock of a locked room with the key that carries the room's
\* reference the room is unlocked and nothing was raised; with another key
\* RoomLockError was raised and the room is still locked; after unlock
\* without a key the room is unlocked; after lock the room is locked.
C23_UnlockByKey ==
    /\ (call.op = "unlock" /\ call.locked) =>
        /\ (call.key # None /\ unlock_room_ref_id(call.key) = call.room) =>
                (outcome = None /\ ~is_locked[call.room])
        /\ (call.key # None /\ unlock_room_ref_id(call.key) # call.room) =>
                (outcome = "RoomLockError" /\ is_locked[call.room])
    /\ (call.op = "unlock" /\ call.key = None) =>
            (outcome = None /\ ~is_locked[call.room])
    /\ call.op = "lock" => is_locked[call.room]

\* ------------------------------------------------------------------ to_svg
\* Map.to_svg as a state machine over its locals.  Positions are counted in
\* halves of `spacing` (spacing = 3 * room_radius), so that the offsets of
\* the spiral (i * spacing * 0.5) are whole numbers.
MaxSvgConnects == 2

SvgDirections == {"NORTH", "EAST", "UP"}

\* The maps to draw: the first n rooms registered in order, and up to
\* MaxSvgConnects successful connect_rooms calls.
RECURSIVE SvgMaps(_, _)
SvgMaps(rs, n) ==
    IF n = 0 THEN {[r \in Rooms |-> EmptyRow]}
    ELSE LET less == SvgMaps(rs, n - 1)
         IN less \cup
            {connect_rooms(rs, conn, a, b, d).connections :
                conn \in less, a \in rs, b \in rs, d \in SvgDirections}

\* get_all_rooms(): the rooms in the order of their registration.
get_all_rooms(rs) ==
    SelectSeq([i \in 1..MaxRooms |-> i], LAMBDA r : r \in rs)

\* position_overlaps: the distance to a placed room is below
\* room_radius * 2.5, which is 5/3 of half a spacing: the squares of the
\* whole distances below it are 0, 1 and 2.
position_overlaps(x, y, placed, positions) ==
    \E r \in placed :
        LET dx == x - positions[r][1]
            dy == y - positions[r][2]
        IN dx * dx + dy * dy <= 2

\* The alternatives tried when a position overlaps, in the order of the
\* two loops: i in 1..4, angle in 0, 90, 180, 270.
SpiralOffsets ==
    << <<1, 0>>, <<0, 1>>, <<-1, 0>>, <<0, -1>>,
       <<2, 0>>, <<0, 2>>, <<-2, 0>>, <<0, -2>>,
       <<3, 0>>, <<0, 3>>, <<-3, 0>>, <<0, -3>>,
       <<4, 0>>, <<0, 4>>, <<-4, 0>>, <<0, -4>> >>

\* The position given to a room whose computed position is <<x, y>>.
free_position(x, y, placed, positions) ==
    IF ~position_overlaps(x, y, placed, positions) THEN <<x, y>>
    ELSE LET free == SelectSeq(SpiralOffsets,
                        LAMBDA o : ~position_overlaps(x + o[1], y + o[2],
                                                      placed, positions))
         IN IF free = << >> THEN <<x, y>>
            ELSE <<x + free[1][1], y + free[1][2]>>

SvgPlaneDirections == <<"NORTH", "SOUTH", "EAST", "WEST">>

\* The directions of the room, of the four the loop tries, whose exit leads
\* to a placed room.
directions_to_placed(rs, conn, room, placed) ==
    SelectSeq(SvgPlaneDirections,
              LAMBDA d : LET found == get_connected_room(rs, conn, room, d)
                         IN found.raised = None /\ found.room # NoRoom
                                /\ found.room \in placed)

\* The position of a room relative to the placed room its exit leads to.
offset_position(pos, direction_to_placed) ==
    CASE direction_to_placed = "NORTH" -> <<pos[1], pos[2] + 2>>
      [] direction_to_placed = "SOUTH" -> <<pos[1], pos[2] - 2>>
      [] direction_to_placed = "EAST" -> <<pos[1] - 2, pos[2]>>
      [] direction_to_placed = "WEST" -> <<pos[1] + 2, pos[2]>>

\* One run of the for loop inside `while rooms_to_place`: the first room,
\* in the order of get_all_rooms(), that is not placed and has an exit to a
\* placed room is placed and the loop is left; when there is no such room
\* the loop ends with nothing changed.
placement_pass(rs, conn, locals) ==
    LET candidates ==
            SelectSeq(get_all_rooms(rs),
                      LAMBDA r : r \notin locals.placed_rooms
                                    /\ directions_to_placed(rs, conn, r,
                                            locals.placed_rooms) # << >>)
    IN IF candidates = << >> THEN locals
       ELSE LET room == candidates[1]
                d == directions_to_placed(rs, conn, room,
                                          locals.placed_rooms)[1]
                at == get_connected_room(rs, conn, room, d).room
                want == offset_position(locals.room_positions[at], d)
                pos == free_position(want[1], want[2], locals.placed_rooms,
                                     locals.room_positions)
            IN [locals EXCEPT
                    !.room_positions = [@ EXCEPT ![room] = pos],
                    !.placed_rooms = @ \cup {room},
                    !.rooms_to_place = SelectSeq(@, LAMBDA r : r # room)]

\* The smallest g with g * g >= n: int(math.ceil(math.sqrt(n))).
grid_size(n) == CHOOSE g \in 0..n : g * g >= n /\ \A h \in 0..n : h * h >= n => g <= h

\* The grid pack of the rooms still in rooms_to_place after the loop.
grid_pack(locals) ==
    LET left == locals.rooms_to_place
        size == grid_size(Len(left))
        index(r) == CHOOSE i \in 1..Len(left) : left[i] = r
    IN [locals EXCEPT
            !.room_positions =
                [r \in Rooms |->
                    IF \E i \in 1..Len(left) : left[i] = r
                    THEN <<((index(r) - 1) % size) * 2,
                           ((index(r) - 1) \div size) * 2>>
                    ELSE @[r]],
            !.placed_rooms = @ \cup {left[i] : i \in 1..Len(left)}]

SvgInit ==
    /\ \E n \in 0..MaxRooms :
        /\ rooms = 1..n
        /\ connections \in SvgMaps(1..n, MaxSvgConnects)
    /\ visited_rooms = {}
    /\ call = NoCall
    /\ outcome = None
    /\ ncalls = 0
    /\ NoSession

svgFrame ==
    <<rooms, connections, visited_rooms, outcome, ncalls, current_room,
      current_room_id, player_character, inventory, room_items, result,
      before_take, room_direction_info, roomVars, serverVars>>

\* The call, up to the while loop: no rooms returns at once; otherwise the
\* first room is placed at the origin.
ToSvgStart ==
    /\ svg.pc = "idle"
    /\ LET all == get_all_rooms(rooms)
       IN svg' = IF all = << >> THEN [svg EXCEPT !.pc = "returned"]
                 ELSE [pc |-> "while",
                       placed_rooms |-> {all[1]},
                       rooms_to_place |-> SelectSeq(all, LAMBDA r : r # all[1]),
                       room_positions |-> [r \in Rooms |-> <<0, 0>>]]
    /\ call' = [op |-> "to_svg"]
    /\ UNCHANGED svgFrame

\* One iteration of `while rooms_to_place`.
ToSvgPass ==
    /\ svg.pc = "while"
    /\ svg.rooms_to_place # << >>
    /\ svg' = placement_pass(rooms, connections, svg)
    /\ UNCHANGED <<call, svgFrame>>

\* The loop is left when rooms_to_place is empty; the grid pack of what is
\* left follows, and the SVG is written and returned.
ToSvgFinish ==
    /\ svg.pc = "while"
    /\ svg.rooms_to_place = << >>
    /\ svg' = [grid_pack(svg) EXCEPT !.pc = "returned"]
    /\ UNCHANGED <<call, svgFrame>>

SvgNext == ToSvgStart \/ ToSvgPass \/ ToSvgFinish

\* The call runs on: each step that can change the state is taken.
SpecSvg == SvgInit /\ [][SvgNext]_vars /\ WF_vars(SvgNext)

\* C24: every to_svg call returns, and when it has returned every room of
\* the map has been given a position.
C24_ToSvgTerminates ==
    <>(svg.pc = "returned"
        /\ (rooms # {} => svg.placed_rooms = rooms))

\* -------------------------------------------------------------- the server
\* api.main: the sessions dictionary, login and the /parser/ endpoint.  The
\* variables rooms .. is_locked show the Dungeon of session `session_id`;
\* the Dungeons of the other sessions are the entries of `sessions`.
MaxRequests == 2

ServerCommands == {<<"go", "north">>, <<"go", "south">>}

\* The Dungeon that the variables show.
Shown ==
    [exists |-> TRUE, rooms |-> rooms, connections |-> connections,
     visited_rooms |-> visited_rooms, current_room |-> current_room,
     current_room_id |-> current_room_id,
     player_character |-> player_character, inventory |-> inventory,
     room_items |-> room_items, room_direction_info |-> room_direction_info,
     npcs |-> npcs, is_locked |-> is_locked]

\* The entry of the session whose Dungeon the variables show.
InUse == [NoDungeon EXCEPT !.exists = TRUE]

\* sessions[s]["dungeon"]
DungeonOf(s) == IF s = session_id THEN Shown ELSE sessions[s]

\* Dungeon(...): a new Dungeon with its own Map, loaded from the dungeon
\* file, with no player.
new_dungeon ==
    LET loaded == load_dungeon(Worlds[1])
    IN [NoDungeon EXCEPT
            !.exists = TRUE,
            !.rooms = loaded.rooms,
            !.connections = loaded.connections,
            !.visited_rooms = loaded.visited_rooms,
            !.current_room = loaded.current_room,
            !.current_room_id = loaded.current_room_id,
            !.room_items = loaded.room_items,
            !.room_direction_info = loaded.room_direction_info]

\* A mutant of store_session: the Dungeon is stored under every key.
store_session_shared(table, s, dungeon) ==
    [t \in SessionIds |-> IF t = s \/ table[t].exists THEN dungeon ELSE table[t]]

\* sessions[session_id] = {"username": username, "dungeon": dungeon}
store_session(table, s, dungeon) == [table EXCEPT ![s] = dungeon]

\* POST /login with a fresh session id.
Login(s) ==
    /\ ~DungeonOf(s).exists
    /\ sessions' = store_session(sessions, s, new_dungeon)
    /\ call' = [op |-> "login", command |-> << >>, room |-> NoRoom,
                session_id |-> s]
    /\ outcome' = None
    /\ UNCHANGED <<rooms, connections, visited_rooms, ncalls, current_room,
                   current_room_id, player_character, inventory, room_items,
                   result, before_take, room_direction_info, roomVars,
                   session_id, requests, svg>>

\* dungeon = sessions[s]["dungeon"]: the variables turn to the Dungeon of
\* session s.  The Dungeon of every session stays as it is.
Show(s) ==
    /\ s # session_id
    /\ sessions[s].exists
    /\ sessions' = IF session_id = None
                   THEN [sessions EXCEPT ![s] = InUse]
                   ELSE [sessions EXCEPT ![s] = InUse, ![session_id] = Shown]
    /\ session_id' = s
    /\ rooms' = sessions[s].rooms
    /\ connections' = sessions[s].connections
    /\ visited_rooms' = sessions[s].visited_rooms
    /\ current_room' = sessions[s].current_room
    /\ current_room_id' = sessions[s].current_room_id
    /\ player_character' = sessions[s].player_character
    /\ inventory' = sessions[s].inventory
    /\ room_items' = sessions[s].room_items
    /\ room_direction_info' = sessions[s].room_direction_info
    /\ npcs' = sessions[s].npcs
    /\ is_locked' = sessions[s].is_locked
    /\ UNCHANGED <<call, outcome, ncalls, result, before_take, requests, svg>>

\* A POST /parser/ request with the cookie of session s reaches the server.
Receive(s, command) ==
    /\ Cardinality(requests) < MaxRequests
    /\ requests' = requests \cup {[session_id |-> s, command |-> command]}
    /\ UNCHANGED <<rooms, connections, visited_rooms, call, outcome, ncalls,
                   current_room, current_room_id, player_character, inventory,
                   room_items, result, before_take, room_direction_info,
                   roomVars, sessions, session_id, svg>>

\* The /parser/ endpoint, an `async def` without an await: from the cookie
\* to the return it runs without a suspension.  An unknown session is a
\* 404; otherwise parse_command runs on the Dungeon of the session.
Handle(req) ==
    /\ req \in requests
    /\ requests' = requests \ {req}
    /\ IF ~DungeonOf(req.session_id).exists
       THEN /\ call' = [op |-> "parser", command |-> req.command,
                        room |-> NoRoom]
            /\ outcome' = "HTTPException"
            /\ UNCHANGED <<rooms, connections, visited_rooms, ncalls,
                           current_room, current_room_id, player_character,
                           inventory, room_items, result, before_take,
                           room_direction_info, roomVars, sessions,
                           session_id, svg>>
       ELSE /\ session_id = req.session_id
            /\ ParseCommand(req.command)

ServerNext ==
    \/ \E s \in SessionIds : Login(s)
    \/ \E s \in SessionIds : Show(s)
    \/ \E s \in SessionIds, command \in ServerCommands : Receive(s, command)
    \/ \E req \in requests : Handle(req)

SpecServer == LoadInit /\ [][ServerNext]_vars

\* The Dungeon that the variables show, after a parse_command outcome.
ShownAfter(o) ==
    [Shown EXCEPT !.current_room = o.current_room,
                  !.current_room_id = o.current_room_id,
                  !.visited_rooms = o.visited_rooms,
                  !.inventory = o.inventory,
                  !.room_items = o.room_items]

\* C25: whatever requests are in flight, a step that changes the Dungeon of
\* a session is one whole parse_command call of one of the requests of that
\* session (or the login that creates the Dungeon): current room, visited
\* set, inventory and room items go from the state before the command to
\* the state after it in one step.
C25_CommandsSerialized ==
    [][ \A s \in SessionIds :
            \/ DungeonOf(s)' = DungeonOf(s)
            \/ ~DungeonOf(s).exists
            \/ /\ s = session_id
               /\ \E req \in requests :
                    /\ req.session_id = s
                    /\ requests' = requests \ {req}
                    /\ \E o \in parse_command(req.command) :
                            DungeonOf(s)' = ShownAfter(o) ]_vars

\* A command moved the player of a session while another request of the
\* same session was in flight.
C25_Witness ==
    /\ call.op = "parse_command"
    /\ result.message.text = "You move"
    /\ \E req \in requests : req.session_id = session_id

\* C26: a login leaves the Dungeon of every other session as it was, and a
\* command leaves the Dungeon of every session but its own as it was.
C26_SessionsIsolated ==
    [][ \A s \in SessionIds :
            DungeonOf(s)' # DungeonOf(s) =>
                \/ call'.op = "login" /\ call'.session_id = s
                \/ call'.op = "parse_command" /\ s = session_id
                        /\ session_id' = session_id ]_vars

\* Two sessions, and a command has moved the player of one of them.
C26_Witness ==
    /\ call.op = "parse_command"
    /\ result.message.text = "You move"
    /\ \E s \in SessionIds :
            s # session_id /\ sessions[s].exists
                /\ sessions[s].current_room # current_room

\* ----------------------------------------------------- functions of the map
\* C27: get_opposite gives a direction for each of the six directions, the
\* opposite of the opposite of a direction is that direction, and no
\* direction is its own opposite; so the exit that a successful
\* connect_rooms call writes on the second room is not in the direction of
\* the call.
C27_GetOppositeInvolution ==
    /\ \A d \in Directions :
        /\ get_opposite(d) \in Directions
        /\ get_opposite(get_opposite(d)) = d
        /\ get_opposite(d) # d
    /\ (call.op = "connect_rooms" /\ outcome = None) =>
        /\ get_opposite(call.direction) # call.direction
        /\ ExitOf(connections[call.room_id2], get_opposite(call.direction))
                = call.room_id1

\* A successful connect_rooms call northwards between two rooms: the second
\* room has its exit to the first in the south.
C27_Witness ==
    /\ call.op = "connect_rooms"
    /\ outcome = None
    /\ call.direction = "NORTH"
    /\ call.room_id1 # call.room_id2
    /\ ExitOf(connections[call.room_id2], "SOUTH") = call.room_id1

\* Map.get_rooms_within_distance as a search over the queue.
MaxDistance == 2

\* A mutant of unvisited_targets: a room that two exits lead to is taken
\* twice.
unvisited_targets_twice(row, seen) ==
    SelectSeq([i \in 1..Len(row) |-> row[i].to], LAMBDA t : t \notin seen)

\* The targets of the exits of a row, in the order of the row, that are not
\* in `seen`, each once.
RECURSIVE unvisited_targets(_, _)
unvisited_targets(row, seen) ==
    IF row = << >> THEN << >>
    ELSE IF Head(row).to \in seen
    THEN unvisited_targets(Tail(row), seen)
    ELSE <<Head(row).to>>
            \o unvisited_targets(Tail(row), seen \cup {Head(row).to})

\* The while loop: queue holds [room, distance] pairs.
RECURSIVE search_queue(_, _, _, _, _, _)
search_queue(conn, room_id, distance, queue, seen, found) ==
    IF queue = << >> THEN found
    ELSE LET current == Head(queue)
             found1 == IF current.room # room_id
                       THEN Append(found, current) ELSE found
         IN IF current.distance >= distance
            THEN search_queue(conn, room_id, distance, Tail(queue), seen, found1)
            ELSE LET new == unvisited_targets(conn[current.room], seen)
                 IN search_queue(conn, room_id, distance,
                        Tail(queue) \o
                            [i \in 1..Len(new) |->
                                [room |-> new[i],
                                 distance |-> current.distance + 1]],
                        seen \cup {new[i] : i \in 1..Len(new)},
                        found1)

\* A mutant of get_rooms_within_distance: the search goes one exit further.
get_rooms_within_distance_further(rs, conn, room_id, distance) ==
    IF room_id \notin rs
    THEN [returned |-> << >>, raised |-> "KeyError"]
    ELSE [returned |-> search_queue(conn, room_id, distance + 1,
                            <<[room |-> room_id, distance |-> 0]>>,
                            {room_id}, << >>),
          raised |-> None]

get_rooms_within_distance(rs, conn, room_id, distance) ==
    IF room_id \notin rs
    THEN [returned |-> << >>, raised |-> "KeyError"]
    ELSE [returned |-> search_queue(conn, room_id, distance,
                            <<[room |-> room_id, distance |-> 0]>>,
                            {room_id}, << >>),
          raised |-> None]

\* call.returned is the list the call returned.
GetRoomsWithinDistance(room_id, distance) ==
    /\ LET res == get_rooms_within_distance(rooms, connections, room_id,
                                            distance)
       IN /\ call' = [op |-> "get_rooms_within_distance",
                      room_id1 |-> room_id, distance |-> distance,
                      returned |-> res.returned]
          /\ outcome' = res.raised
    /\ UNCHANGED <<svg, rooms, connections, visited_rooms, ncalls,
                   current_room, current_room_id, player_character, inventory,
                   room_items, result, before_take, room_direction_info,
                   roomVars, serverVars>>

DistanceNext ==
    \E room_id \in Rooms, distance \in 0..MaxDistance :
        GetRoomsWithinDistance(room_id, distance)

\* The maps are those of SvgInit: up to MaxRooms rooms joined by up to
\* MaxSvgConnects connect_rooms calls.
SpecDistance == SvgInit /\ [][DistanceNext]_vars

\* The rooms that the exits of a room lead to.
ExitTargets(row) == {row[i].to : i \in 1..Len(row)}

\* C28: for a registered start room the list for distance 0 is empty, and
\* the list for distance 1 holds the targets of the exits of the start room
\* other than the start room, each once and each with distance 1.
C28_WithinDistanceZeroAndOne ==
    (call.op = "get_rooms_within_distance" /\ call.room_id1 \in rooms) =>
        LET list == call.returned
        IN /\ outcome = None
           /\ call.distance = 0 => list = << >>
           /\ call.distance = 1 =>
                /\ {list[i].room : i \in 1..Len(list)}
                        = ExitTargets(connections[call.room_id1])
                                \ {call.room_id1}
                /\ \A i \in 1..Len(list) : list[i].distance = 1
                /\ \A i \in 1..Len(list), j \in 1..Len(list) :
                        list[i].room = list[j].room => i = j

\* A call for distance 1 on a room with two exits to other rooms, one of
\* them upwards.
C28_Witness ==
    /\ call.op = "get_rooms_within_distance"
    /\ call.distance = 1
    /\ Len(call.returned) = 2
    /\ HasExit(connections[call.room_id1], "UP")

\* ------------------------------------------------- the order of the parser
\* The places in the Action enumeration of the actions one of whose aliases
\* is among the words.
ActionPlaces(words) ==
    {k \in 1..Len(Action) : \E i \in 1..Len(words) : words[i] \in Action[k].alias}

\* C29: the action of a command with aliases of one or more actions (and no
\* word of naughty_word_list) is the one of these that comes first in the
\* Action enumeration, wherever its alias stands in the command.
C29_FirstActionInEnumeration ==
    [][ IsParseCommand =>
        \A words \in {command_words(call'.command)} :
        \A places \in {ActionPlaces(words)} :
            ( /\ places # {}
              /\ \A i \in 1..Len(words) : words[i] \notin naughty_word_list )
            => result'.action =
                    Action[CHOOSE k \in places : \A j \in places : k <= j].name
      ]_vars

\* "take go north" moved the player.
C29_Witness ==
    /\ call.op = "parse_command"
    /\ call.command = <<"take", "go", "north">>
    /\ result.action = "MOVE"
    /\ result.message.text = "You move"
    /\ current_room # call.room

\* C30: a command with a word of naughty_word_list is answered from
\* default_response when no word is an alias of an action, and otherwise
\* from naughty_response with the action NONE; in both cases no handler
\* runs: the locals of the handlers are unset and the session state is as
\* it was.
C30_DenylistAfterNoAction ==
    [][ IsParseCommand =>
        \A words \in {command_words(call'.command)} :
           (\E i \in 1..Len(words) : words[i] \in naughty_word_list)
           => ( /\ result'.returned
                /\ result'.action = "NONE"
                /\ result'.message.text \in
                        (IF ActionPlaces(words) = {} THEN default_response
                         ELSE naughty_response)
                /\ result'.direction = None
                /\ result'.room_target_item = None
                /\ result'.player_target_item = None
                /\ SessionUnchanged ) ]_vars

\* "go north shit" was rebuked in a room that has an exit to the north.
C30_Witness ==
    /\ call.op = "parse_command"
    /\ call.command = <<"go", "north", "shit">>
    /\ result.message.text \in naughty_response
    /\ HasExit(connections[current_room], "NORTH")

\* ------------------------------------------------- what a command may change
\* A session played with one command of every branch of parse_command: the
\* commands without a target, MOVE, the verbs with a branch of their own and
\* the verbs of the common branch, and commands with an alias of Action.NONE.
PlayCommands ==
    {<<"init">>, <<"help">>, <<"clear">>, <<"inventory">>, <<"look">>,
     <<"go", "north">>, <<"go", "south">>, <<"Lamp">>,
     <<"take", "Lamp">>, <<"drop", "Lamp">>, <<"examine", "Lamp">>,
     <<"eat", "Lamp">>, <<"throw", "Lamp">>, <<"use", "Lamp">>,
     <<"give", "Lamp">>, <<"talk", "Lamp">>, <<"open", "Lamp">>,
     <<"close", "Lamp">>, <<"attack", "Lamp">>,
     <<"none">>, <<"none", "Lamp">>, <<"unknown", "take", "Lamp">>,
     <<"take", "none", "shit">>}

PlayNext ==
    \/ SetPlayerCharacter
    \/ \E command \in PlayCommands :
            ParseCommand(command) /\ UNCHANGED requests

SpecPlay == GameInit /\ [][PlayNext]_vars

\* The primary action of a command: the first action of the enumeration with
\* an alias among the words, NONE for a command with none.
PrimaryAction(words) ==
    IF \A k \in 1..Len(Action), i \in 1..Len(words) : words[i] \notin Action[k].alias
    THEN "NONE"
    ELSE Action[CHOOSE k \in 1..Len(Action) :
                    /\ \E i \in 1..Len(words) : words[i] \in Action[k].alias
                    /\ \A j \in 1..(k - 1), i \in 1..Len(words) :
                            words[i] \notin Action[j].alias].name

\* C31: a parse_command call whose primary action is neither TAKE nor DROP
\* leaves the inventory of the player and the item list of every room as
\* they were, whether the call returns or raises.
C31_ItemsMoveOnlyByTakeAndDrop ==
    [][ IsParseCommand =>
        \A action \in {PrimaryAction(command_words(call'.command))} :
            action \notin {"TAKE", "DROP"}
            => /\ inventory' = inventory
               /\ room_items' = room_items
      ]_vars

\* A verb other than TAKE and DROP was applied to an item the player holds.
C31_Witness ==
    /\ call.op = "parse_command"
    /\ call.command \in {<<"eat", "Lamp">>, <<"give", "Lamp">>, <<"throw", "Lamp">>}
    /\ result.returned
    /\ result.player_target_item = "lamp"
    /\ inventory = <<"lamp">>

\* C32: a parse_command call leaves the registry of rooms and the table of
\* exits as they were: no room is added or removed and no exit of any room
\* in any direction is added, removed or redirected.
C32_CommandsKeepTheMap ==
    [][ IsParseCommand => /\ rooms' = rooms
                          /\ connections' = connections ]_vars

\* A command moved the player to another room, which has exits.
C32_Witness ==
    /\ call.op = "parse_command"
    /\ result.returned
    /\ result.action = "MOVE"
    /\ current_room # call.room
    /\ connections[current_room] # EmptyRow

\* ------------------------------------------------------------------ moving
\* The worlds of the sessions that only move: the two worlds above and the
\* rooms of the first world with no connection listed, so that the start
\* room has no exit.
MoveWorlds == Worlds \o << [Worlds[1] EXCEPT !.connections = << >>] >>

MoveInit ==
    /\ \E w \in 1..Len(MoveWorlds) : Loaded(MoveWorlds[w])
    /\ player_character = None
    /\ inventory = << >>
    /\ result = NoResult
    /\ before_take = NoSnapshot
    /\ call = NoCall
    /\ outcome = None
    /\ ncalls = 0
    /\ NoServer
    /\ svg = NoSvg

\* MOVE commands with no direction word (with and without other words), with
\* one direction word and with several.
MoveCommands ==
    {<<"go">>, <<"go", "Lamp">>, <<"move", "Key!", "Lamp">>,
     <<"go", "north">>, <<"go", "south">>, <<"go", "east">>,
     <<"go", "south", "north">>, <<"go", "north", "south">>,
     <<"go", "east", "south">>, <<"take", "go", "up", "north">>,
     <<"look">>}

MoveNext ==
    \/ SetPlayerCharacter
    \/ \E command \in MoveCommands :
            ParseCommand(command) /\ UNCHANGED requests

SpecMove == MoveInit /\ [][MoveNext]_vars

\* The exits of a room in the order of its row.
ExitsInOrder(room) ==
    [i \in 1..Len(connections[room]) |-> connections[room][i].dir]

\* The call left the session where it was and returned this message.
Stayed(message) ==
    /\ result'.returned
    /\ result'.message = message
    /\ current_room' = current_room
    /\ current_room_id' = current_room_id
    /\ visited_rooms' = visited_rooms

RECURSIVE Within(_, _, _)
Within(conn, room_id, n) ==
    IF n = 0 THEN {room_id}
    ELSE LET nearer == Within(conn, room_id, n - 1)
         IN nearer \cup UNION {ExitTargets(conn[r]) : r \in nearer}

\* The least number of exits that lead from a room to a room within reach.
Hops(conn, room_id, room) ==
    CHOOSE n \in 0..MaxRooms :
        /\ room \in Within(conn, room_id, n)
        /\ n > 0 => room \notin Within(conn, room_id, n - 1)

\* C34: for a registered start room and a distance n the call returns, and
\* its list holds the rooms other than the start room that at most n exits
\* lead to, each once and with its least number of exits, and no other
\* room; the distances of the list never decrease.
C34_WithinDistanceIsBreadthFirst ==
    (call.op = "get_rooms_within_distance" /\ call.room_id1 \in rooms) =>
        LET list == call.returned
        IN /\ outcome = None
           /\ {list[i].room : i \in 1..Len(list)}
                = Within(connections, call.room_id1, call.distance)
                        \ {call.room_id1}
           /\ \A i \in 1..Len(list), j \in 1..Len(list) :
                    list[i].room = list[j].room => i = j
           /\ \A i \in 1..Len(list) :
                    list[i].distance
                        = Hops(connections, call.room_id1, list[i].room)
           /\ \A i \in 1..Len(list), j \in 1..Len(list) :
                    i < j => list[i].distance <= list[j].distance

\* A call for distance 2 in a chain of three rooms (every exit has its
\* exit back, so the rooms lie on cycles): the far room comes last, two
\* exits away.
C34_Witness ==
    /\ call.op = "get_rooms_within_distance"
    /\ call.distance = 2
    /\ Len(call.returned) = 2
    /\ call.returned[1].distance = 1
    /\ call.returned[2].distance = 2
    /\ call.room_id1 \in ExitTargets(connections[call.returned[1].room])

\* ------------------------------------------------- the registry of the map
\* A mutant of remove_room: the exits of the other rooms are left alone.
remove_room_own_row(rs, conn, visited, room_id) ==
    IF room_id \notin rs
    THEN [rooms |-> rs, connections |-> conn, visited_rooms |-> visited,
          raised |-> "KeyError"]
    ELSE [rooms |-> rs \ {room_id},
          connections |-> [conn EXCEPT ![room_id] = EmptyRow],
          visited_rooms |-> visited \ {room_id},
          raised |-> None]

\* Map.remove_room: every exit to the room is deleted from every row, then
\* the room and its row are deleted, and the room leaves the visited set.
remove_room(rs, conn, visited, room_id) ==
    IF room_id \notin rs
    THEN [rooms |-> rs, connections |-> conn, visited_rooms |-> visited,
          raised |-> "KeyError"]
    ELSE [rooms |-> rs \ {room_id},
          connections |->
            [r \in DOMAIN conn |->
                IF r = room_id THEN EmptyRow
                ELSE SelectSeq(conn[r], LAMBDA e : e.to # room_id)],
          visited_rooms |-> visited \ {room_id},
          raised |-> None]

\* call.connections and call.visited_rooms are the table and the visited
\* set before the call.
RemoveRoom(r) ==
    /\ ncalls < MaxCalls
    /\ LET res == remove_room(rooms, connections, visited_rooms, r)
       IN /\ rooms' = res.rooms
          /\ connections' = res.connections
          /\ visited_rooms' = res.visited_rooms
          /\ outcome' = res.raised
    /\ call' = [op |-> "remove_room", room_id1 |-> r, room_id2 |-> NoRoom,
                direction |-> None, connections |-> connections,
                visited_rooms |-> visited_rooms]
    /\ ncalls' = ncalls + 1
    /\ UNCHANGED gameVars

MarkRoomVisited(r) ==
    /\ ncalls < MaxCalls
    /\ LET res == mark_room_visited(rooms, visited_rooms, r)
       IN /\ visited_rooms' = res.visited_rooms
          /\ outcome' = res.raised
    /\ call' = [op |-> "mark_room_visited", room_id1 |-> r, room_id2 |-> NoRoom,
                direction |-> None]
    /\ ncalls' = ncalls + 1
    /\ UNCHANGED <<rooms, connections, gameVars>>

\* The directions the callers pass in the sessions that add and remove rooms.
RegistryDirections == {"NORTH", "EAST"}

RegistryNext ==
    \/ \E r \in Rooms : AddRoom(r)
    \/ \E a \in Rooms, b \in Rooms, d \in RegistryDirections :
            ConnectRooms(a, b, d)
    \/ \E r \in Rooms : MarkRoomVisited(r)
    \/ \E r \in Rooms : RemoveRoom(r)

SpecRegistry == MapInit /\ [][RegistryNext]_vars

\* C35: remove_room of a registered room returns; the room leaves the
\* registry and the visited set, every exit of every room that led to it is
\* gone and no row holds an exit to it.  remove_room of an identity that is
\* not registered raises KeyError and changes nothing.
C35_RemoveRoom ==
    [][ IsCall("remove_room") =>
        \A r \in {call'.room_id1} :
            IF r \in rooms
            THEN /\ outcome' = None
                 /\ rooms' = rooms \ {r}
                 /\ visited_rooms' = visited_rooms \ {r}
                 /\ \A b \in Rooms, d \in Directions :
                        ExitOf(connections[b], d) = r
                            => ~HasExit(connections'[b], d)
                 /\ \A b \in Rooms : r \notin ExitTargets(connections'[b])
                 /\ connections'[r] = EmptyRow
            ELSE /\ outcome' = "KeyError"
                 /\ rooms' = rooms
                 /\ visited_rooms' = visited_rooms
                 /\ connections' = connections
      ]_vars

\* A visited room with an exit to another room and the exit back was
\* removed (call.connections and call.visited_rooms are the table and the
\* visited set before the call): the other room has lost its exit.
C35_Witness ==
    /\ call.op = "remove_room"
    /\ outcome = None
    /\ call.room_id1 \in call.visited_rooms
    /\ \E b \in rooms :
        /\ call.room_id1 \in ExitTargets(call.connections[b])
        /\ b \in ExitTargets(call.connections[call.room_id1])
        /\ connections[b] = EmptyRow

\* C36: add_room registers the room with an empty row and leaves the
\* registration of the other rooms, the visited set and the rows of all
\* other rooms as they were; this holds too when the identity is already
\* registered, whose own row is then emptied.
C36_AddRoomFrame ==
    [][ IsCall("add_room") =>
        \A r \in {call'.room_id1} :
            /\ outcome' = None
            /\ rooms' = rooms \cup {r}
            /\ connections'[r] = EmptyRow
            /\ visited_rooms' = visited_rooms
            /\ \A b \in Rooms \ {r} : connections'[b] = connections[b]
      ]_vars

\* A visited room was added again: its row is empty and another room still
\* has its exit to it.
C36_Witness ==
    /\ call.op = "add_room"
    /\ call.room_id1 \in visited_rooms
    /\ connections[call.room_id1] = EmptyRow
    /\ \E b \in rooms \ {call.room_id1} :
            call.room_id1 \in ExitTargets(connections[b])

\* ------------------------------------------- the containers on their own
\* A Character and a Room outside any dungeon: items are added to and
\* removed from the inventory of the character and the item list of the
\* room; neither container grows beyond MaxInventory entries.  The room is
\* the object of identity TheRoom.  call.item is the item passed.
TheRoom == 1

AddToInventory(item) ==
    /\ Len(inventory) < MaxInventory
    /\ LET res == add_to_inventory(inventory, item)
       IN /\ inventory' = res.inventory
          /\ outcome' = res.raised
    /\ call' = [op |-> "add_to_inventory", item |-> item]
    /\ UNCHANGED <<mapVars, ncalls, current_room, current_room_id,
                   player_character, room_items, result, before_take,
                   room_direction_info, roomVars, serverVars, svg>>

RemoveFromInventory(item) ==
    /\ LET res == remove_from_inventory(inventory, item)
       IN /\ inventory' = res.inventory
          /\ outcome' = res.raised
    /\ call' = [op |-> "remove_from_inventory", item |-> item]
    /\ UNCHANGED <<mapVars, ncalls, current_room, current_room_id,
                   player_character, room_items, result, before_take,
                   room_direction_info, roomVars, serverVars, svg>>

AddItem(item) ==
    /\ Len(room_items[TheRoom]) < MaxInventory
    /\ room_items' = [room_items EXCEPT ![TheRoom] = add_item(@, item, "")]
    /\ outcome' = None
    /\ call' = [op |-> "add_item", item |-> item]
    /\ UNCHANGED <<mapVars, ncalls, current_room, current_room_id,
                   player_character, inventory, result, before_take,
                   room_direction_info, roomVars, serverVars, svg>>

RemoveItem(item) ==
    /\ room_items' = [room_items EXCEPT ![TheRoom] = remove_item(@, item)]
    /\ outcome' = None
    /\ call' = [op |-> "remove_item", item |-> item]
    /\ UNCHANGED <<mapVars, ncalls, current_room, current_room_id,
                   player_character, inventory, result, before_take,
                   room_direction_info, roomVars, serverVars, svg>>

ContainerNext ==
    \/ \E item \in Items : AddToInventory(item)
    \/ \E item \in Items : RemoveFromInventory(item)
    \/ \E item \in Items : AddItem(item)
    \/ \E item \in Items : RemoveItem(item)

SpecContainers == MapInit /\ [][ContainerNext]_vars

\* The items of the entries of a room's list.
ItemsOf(items) == {items[i].item : i \in 1..Len(items)}

DirectionPlaces(words) ==
    {k \in 1..Len(Direction) :
        \E i \in 1..Len(words) : words[i] \in DirectionValue(Direction[k])}

\* C38: a MOVE command with words of two or more directions uses the one
\* that comes first in the Direction enumeration, wherever its word stands:
\* the player moves through the exit of the current room in that direction
\* when there is one, and otherwise stays with "You can't go that
\* direction.", whether or not the room has an exit in another direction
\* that the command names.
C38_FirstDirectionInEnumeration ==
    [][ IsParseCommand =>
        \A words \in {command_words(call'.command)} :
        \A places \in {DirectionPlaces(words)} :
            ( /\ PrimaryAction(words) = "MOVE"
              /\ \A i \in 1..Len(words) : words[i] \notin naughty_word_list
              /\ Cardinality(places) >= 2 )
            => \A d \in {Direction[CHOOSE k \in places :
                                        \A j \in places : k <= j]} :
                /\ result'.action = "MOVE"
                /\ result'.direction = d
                /\ IF HasExit(connections[current_room], d)
                   THEN /\ MovedThrough(d)
                        /\ result'.message.text = "You move"
                        /\ result'.message.direction = d
                   ELSE Stayed(Message("You can't go that direction."))
      ]_vars

\* "go south north" was given in a room with an exit to the south and none
\* to the north: the player has stayed.
C38_Witness ==
    /\ call.op = "parse_command"
    /\ call.command = <<"go", "south", "north">>
    /\ result.direction = "NORTH"
    /\ result.message.text = "You can't go that direction."
    /\ HasExit(connections[current_room], "SOUTH")
    /\ current_room = call.room

\* C39: a parse_command call whose command has the word "none" or "unknown"
\* and no word of naughty_word_list returns a result with the action NONE
\* and a message that is not one of default_response, whatever other
\* action aliases the command has.
C39_NoneAliasDispatched ==
    [][ IsParseCommand =>
        \A words \in {command_words(call'.command)} :
            ( /\ \E i \in 1..Len(words) : words[i] \in Action[1].alias
              /\ \A i \in 1..Len(words) : words[i] \notin naughty_word_list )
            => /\ result'.returned
               /\ result'.action = "NONE"
               /\ result'.message.text \notin default_response
      ]_vars

\* ------------------------------------------------------ play behind locks
\* A session in which rooms are locked and unlocked (without a key) between
\* the commands.
LockedCommands ==
    {<<"go", "north">>, <<"go", "south">>, <<"go", "south", "north">>,
     <<"go">>, <<"look">>, <<"take", "Lamp">>, <<"examine", "Lamp">>}

LockedNext ==
    \/ \E room \in Rooms : Lock(room)
    \/ \E room \in Rooms : Unlock(room, None)
    \/ \E command \in LockedCommands :
            ParseCommand(command) /\ UNCHANGED requests

SpecLocked == GameInit /\ [][LockedNext]_vars

\* C40: a parse_command call leaves the lock of every room as it was, and
\* a MOVE command whose direction (the first of the enumeration among those
\* it names) is an exit of the current room moves the player through it
\* with "You move", whether the room behind the exit, or the current room,
\* is locked or not.
C40_LocksDoNotBar ==
    [][ IsParseCommand =>
        /\ is_locked' = is_locked
        /\ \A words \in {command_words(call'.command)} :
           \A directions \in {command_directions(words)} :
                ( /\ PrimaryAction(words) = "MOVE"
                  /\ directions # << >>
                  /\ HasExit(connections[current_room], directions[1]) )
                => /\ MovedThrough(directions[1])
                   /\ result'.message.text = "You move"
      ]_vars

\* The player has moved into a locked room, out of a locked room.
C40_Witness ==
    /\ call.op = "parse_command"
    /\ result.message.text = "You move"
    /\ current_room # call.room
    /\ is_locked[current_room]
    /\ is_locked[call.room]

====
